---------------------------- MODULE Spec2Model ----------------------------
(***************************************************************************)
(* State-machine model of the WhatsApp market bot: the 'message' handler   *)
(* of index.js (admission, extraction, grouping, dispatch, broadcast), the *)
(* automation toggle of the web UI, the normalisation loop of              *)
(* geminiProcessor.js and the static configuration of config.js.           *)
(*                                                                         *)
(* Node.js runs one handler at a time and switches only at an await, so    *)
(* every action below is the code that runs between two awaits of one     *)
(* handler invocation (or one socket event).                               *)
(***************************************************************************)
EXTENDS Integers, Sequences, FiniteSets, TLC

(***************************************************************************)
(* Bounds of the model.                                                    *)
(***************************************************************************)
\* inbound messages whose cycles may overlap in one behaviour
MaxMsgs == 2
\* objects in one answer of the oracle
MaxOffers == 2
\* transport calls (lookups, sends) that fail, summed over the behaviour
MaxFaults == 1
\* pieces (a word, with or without a space before it) of a text to format
MaxPieces == 4
\* pieces (the token, a part of it, a crop name, a sign) of a Telugu text
MaxTeluguPieces == 4
\* the quantities 0..MaxQuantity stand before the unit words
MaxQuantity == 5

Msgs == 1..MaxMsgs

\* a behaviour either overlaps MaxMsgs messages whose answers carry at most
\* one object, or handles one message whose answer carries up to MaxOffers
Loads == {[msgs |-> MaxMsgs, offers |-> 1], [msgs |-> 1, offers |-> MaxOffers]}

(***************************************************************************)
(* The state.  The handler's locals are per invocation, so each is a       *)
(* function of the message the invocation handles.                         *)
(***************************************************************************)
VARIABLES
    botAutomationEnabled, \* index.js:28, the automation flag
    inbox,                \* the message each invocation received
    pc,                   \* where each invocation is suspended
    processedOffers,      \* index.js:147
    groupedMessages,      \* index.js:157
    pos,                  \* the (category, language) pair of the second pass
    allUpdatesContent,    \* index.js:163
    \* what the environment and the history record, for the properties
    flagSeen,             \* the flag as the invocation read it at line 120
    everOn,               \* the control surface has turned the flag ON
    offDuring,            \* the flag went OFF while the cycle waited to call the oracle
    resp,                 \* the oracle's answer to the invocation
    oracleCalls,          \* calls of model.generateContent per invocation
    sends,                \* calls of client.sendMessage per invocation, in order
    faults,               \* transport calls that failed so far
    load,                 \* the element of Loads that bounds the behaviour
    fmt,                  \* a text, and applyFormattingRules applied to it
    tel                   \* a Telugu text, and the corrections applied to it

handlerVars == <<inbox, pc, processedOffers, groupedMessages, pos, allUpdatesContent>>

historyVars == <<flagSeen, everOn, offDuring, resp, oracleCalls, sends, faults, load>>

vars == <<botAutomationEnabled, handlerVars, historyVars, fmt, tel>>

(***************************************************************************)
(* JavaScript values.  A missing property reads as undefined; undefined    *)
(* and the empty string are the falsy values that occur here.              *)
(***************************************************************************)
Undefined == "<undefined>"

Truthy(v) == v \notin {Undefined, ""}

\* mutant: the letter case is left as it is
KeepCase(s) == s

\* String.prototype.toUpperCase on the strings the model uses
ToUpperCase(s) ==
    CASE s = "Tur Sudan" -> "TUR SUDAN"
      [] s = "Tur"       -> "TUR"
      [] s = "Toor Dal"  -> "TOOR DAL"
      [] s = "Pulses"    -> "PULSES"
      [] s = "Haldi"     -> "HALDI"
      [] s = "spices"    -> "SPICES"
      [] s = "Rice Sona" -> "RICE SONA"
      [] s = "Rice"      -> "RICE"
      [] s = "Gram"      -> "GRAM"
      [] s = "Moong"     -> "MOONG"
      [] s = "tur"       -> "TUR"
      [] s = "Tu"        -> "TU"
      [] s = "Kali Mirch" -> "KALI MIRCH"
      [] s = "Kali"      -> "KALI"
      [] s = "Chilli"    -> "CHILLI"
      [] s = "Sugar"     -> "SUGAR"
      [] s = "Jeera"     -> "JEERA"
      [] s = "Gud"       -> "GUD"
      [] s = "Jaggery"   -> "JAGGERY"
      [] OTHER           -> s

\* s.split(' ')[0]
FirstWord(s) ==
    CASE s = "Tur Sudan" -> "Tur"
      [] s = "Rice Sona" -> "Rice"
      [] s = "TUR SUDAN" -> "TUR"
      [] s = "Kali Mirch" -> "Kali"
      [] OTHER           -> s

\* String.prototype.trim: the only text of the model that trimming changes
\* is the whitespace-only one
Trim(s) == IF s = " " THEN "" ELSE s

(***************************************************************************)
(* config.js.  The repository ships the same placeholder identifier for    *)
(* every channel ("Replace with actual ID"); the model gives each          *)
(* configured channel its own identifier, as a deployment does.            *)
(***************************************************************************)
SELLER_GROUP_IDS == {"seller1@g.us"}

\* mutant: the routing table has lost the entry of KIRANA
BUYER_GROUP_MAPPING_WITHOUT_KIRANA ==
    [PULSES |-> [en |-> "pulses-en@g.us", te |-> "pulses-te@g.us"],
     SPICES |-> [en |-> "spices-en@g.us"],
     OILS   |-> [en |-> "oils-en@g.us"],
     SUGAR  |-> [en |-> "sugar-en@g.us"]]

BUYER_GROUP_MAPPING ==
    [PULSES |-> [en |-> "pulses-en@g.us", te |-> "pulses-te@g.us"],
     SPICES |-> [en |-> "spices-en@g.us"],
     OILS   |-> [en |-> "oils-en@g.us"],
     SUGAR  |-> [en |-> "sugar-en@g.us"],
     KIRANA |-> [en |-> "kirana-en@g.us"]]

ALL_UPDATES_GROUP_ID == "all-updates@g.us"

TARGET_LANGUAGES == <<"en", "te">>

\* the languages the handler groups and dispatches, in the order of its code
Langs == <<"en", "te">>

(***************************************************************************)
(* Inbound messages: msg.from and msg.isGroup (true, false or missing).    *)
(***************************************************************************)
\* a channel of the eligible set with each value of isGroup, and a group
\* and a user outside it
InboundMsgs ==
    {[from |-> "seller1@g.us", isGroup |-> "true"],
     [from |-> "seller1@g.us", isGroup |-> Undefined],
     [from |-> "seller1@g.us", isGroup |-> "false"],
     [from |-> "other@g.us", isGroup |-> Undefined],
     [from |-> "user@c.us", isGroup |-> Undefined]}

NoMsg == [from |-> Undefined, isGroup |-> Undefined]

\* msg.from.endsWith('@g.us')
EndsWithGUs(id) == id \in {"seller1@g.us", "other@g.us"}

\* index.js:117
IsActuallyGroup(msg) ==
    \/ msg.isGroup = "true"
    \/ (msg.isGroup = Undefined /\ EndsWithGUs(msg.from))

\* mutant: the membership test is lost and every channel counts as a seller group
SellerIncludesAny(from) == TRUE

\* SELLER_GROUP_IDS.includes(msg.from)
SellerIncludes(from) == from \in SELLER_GROUP_IDS

\* mutant: the skip condition forgets the automation flag
AdmittedIgnoringFlag(flag, msg) ==
    IsActuallyGroup(msg) /\ SellerIncludes(msg.from)

\* the negation of the skip condition of index.js:120
Admitted(flag, msg) ==
    flag /\ IsActuallyGroup(msg) /\ SellerIncludes(msg.from)


(***************************************************************************)
(* geminiProcessor.js: the lexicon.  One entry per standardized name, in   *)
(* the order of the nested table; the aliases are upper-case in the source *)
(* so alias.toUpperCase() leaves them as they are.                         *)
(***************************************************************************)
\* mutant: a table that lists HALDI under two standardized names
CROP_TABLE_WITH_SHARED_ALIAS ==
    << [category |-> "PULSES", standardizedName |-> "TOOR DAL",
        aliases |-> {"TOOR", "TUR", "HALDI"}],
       [category |-> "SPICES", standardizedName |-> "TURMERIC",
        aliases |-> {"TURMERIC", "HALDI"}] >>

CROP_CATEGORIES_AND_STANDARDIZATION ==
    << [category |-> "PULSES", standardizedName |-> "CHANA DAL",
        aliases |-> {"CHANA", "CHANA DAL", "GRAM", "SENAGA PAPPU"}],
       [category |-> "PULSES", standardizedName |-> "TOOR DAL",
        aliases |-> {"TOOR", "TOOR DAL", "ARHAR", "TUR", "KANDI PAPPU", "KANDULU"}],
       [category |-> "PULSES", standardizedName |-> "URAD DAL",
        aliases |-> {"URAD", "URAD DAL", "MINUMULU", "MINAPAPPU"}],
       [category |-> "PULSES", standardizedName |-> "MOONG DAL",
        aliases |-> {"MOONG", "MOONG DAL", "MUNG", "MUNG DAL", "PESALU", "PESARA PAPPU"}],
       [category |-> "PULSES", standardizedName |-> "MASUR DAL",
        aliases |-> {"MASUR", "MASUR DAL"}],
       [category |-> "PULSES", standardizedName |-> "MATAR",
        aliases |-> {"MATAR", "MATAR DAL", "BATANI", "BATANI PAPPU"}],
       [category |-> "SPICES", standardizedName |-> "TURMERIC",
        aliases |-> {"TURMERIC", "HALDI"}],
       [category |-> "SPICES", standardizedName |-> "DHANIA",
        aliases |-> {"DHANIA", "CORIANDER"}],
       [category |-> "SPICES", standardizedName |-> "CHILLI",
        aliases |-> {"CHILLI", "CHILLY", "CHILI", "MIRCHI"}],
       [category |-> "SPICES", standardizedName |-> "JEERA",
        aliases |-> {"JEERA", "CUMIN"}],
       [category |-> "SPICES", standardizedName |-> "SAUNF",
        aliases |-> {"SAUNF", "FENNEL"}],
       [category |-> "SPICES", standardizedName |-> "METHI",
        aliases |-> {"METHI", "FENUGREEK"}],
       [category |-> "SPICES", standardizedName |-> "KALONJI",
        aliases |-> {"KALONJI", "BLACK CUMIN"}],
       [category |-> "SPICES", standardizedName |-> "AJWAIN",
        aliases |-> {"AJWAIN", "CAROM SEEDS"}],
       [category |-> "SPICES", standardizedName |-> "BLACK PEPPER",
        aliases |-> {"BLACK PEPPER", "KALI MIRCH"}],
       [category |-> "OILS", standardizedName |-> "COTTON OIL",
        aliases |-> {"COTTON", "COTTON OIL"}],
       [category |-> "OILS", standardizedName |-> "COTTON KHAL",
        aliases |-> {"COTTON KHAL"}],
       [category |-> "OILS", standardizedName |-> "RICE BRAN OIL",
        aliases |-> {"RICE BRAN", "RICE BRAN OIL"}],
       [category |-> "OILS", standardizedName |-> "GN SEED OIL",
        aliases |-> {"GN SEED", "GROUNDNUT SEED", "GNUT SEED"}],
       [category |-> "OILS", standardizedName |-> "GROUNDNUT OIL",
        aliases |-> {"GROUNDNUT", "GROUNDNUT OIL", "PALLI NUNE"}],
       [category |-> "OILS", standardizedName |-> "SESAME OIL",
        aliases |-> {"SESAME", "SESAME OIL", "TIL OIL"}],
       [category |-> "OILS", standardizedName |-> "CASTOR OIL",
        aliases |-> {"CASTOR", "CASTOR OIL"}],
       [category |-> "OILS", standardizedName |-> "KANDLA OIL",
        aliases |-> {"KANDLA", "KANDLA OIL"}],
       [category |-> "OILS", standardizedName |-> "SOYA OIL",
        aliases |-> {"SOYA", "SOYABEAN", "SOYA OIL"}],
       [category |-> "OILS", standardizedName |-> "PALM OIL",
        aliases |-> {"PALM", "PALM OIL"}],
       [category |-> "OILS", standardizedName |-> "VANASPATI GHEE",
        aliases |-> {"VANASPATI", "VANASPATI GHEE"}],
       [category |-> "OILS", standardizedName |-> "MUSTARD OIL",
        aliases |-> {"MUSTARD", "MUSTARD OIL", "SARSON"}],
       [category |-> "OILS", standardizedName |-> "ADANI WILMAR",
        aliases |-> {"ADANI WILMAR", "ADANI"}],
       [category |-> "SUGAR", standardizedName |-> "SUGAR",
        aliases |-> {"SUGAR", "CHINI"}],
       [category |-> "SUGAR", standardizedName |-> "JAGGERY",
        aliases |-> {"JAGGERY", "GUD"}],
       [category |-> "KIRANA", standardizedName |-> "KIRANA",
        aliases |-> {"KIRANA", "GROCERY"}] >>

\* the entries of the nested table that list the key as an alias
AliasEntries(key) ==
    {i \in 1..Len(CROP_CATEGORIES_AND_STANDARDIZATION) :
        key \in CROP_CATEGORIES_AND_STANDARDIZATION[i].aliases}

\* FLATTENED_CROP_MAPPING has the key (the construction loop wrote it)
HasFlatMapping(key) == AliasEntries(key) # {}

\* FLATTENED_CROP_MAPPING[key]: the loop assigns in table order, so the last
\* entry listing the alias is the one that stays
FLATTENED_CROP_MAPPING(key) ==
    LET last == CHOOSE i \in AliasEntries(key) :
                    \A j \in AliasEntries(key) : j <= i
    IN  [standardizedName |-> CROP_CATEGORIES_AND_STANDARDIZATION[last].standardizedName,
         category         |-> CROP_CATEGORIES_AND_STANDARDIZATION[last].category]

(***************************************************************************)
(* geminiProcessor.js:159-221, applyFormattingRules, on texts written as   *)
(* sequences of characters over Alphabet.  The characters that the other   *)
(* patterns of the function need (parentheses, colon, slash, dot, at sign, *)
(* emoji, the letters of CONTACT, DM, NO SALE and the other phrases) are   *)
(* not in Alphabet, so of its rules the ones below are those that can      *)
(* match.                                                                  *)
(***************************************************************************)
Digits == <<"0", "1", "2", "3", "4", "5", "6", "7", "8", "9">>

DigitChars == {Digits[i] : i \in 1..Len(Digits)}

Whitespace == {" ", "\n"}

LetterChars == {"A", "B", "C", "E", "G", "I", "K", "L", "M", "N", "Q", "R", "S", "T", "U"}

Alphabet == LetterChars \cup DigitChars \cup Whitespace \cup {"+", "-"}

\* \w on Alphabet
WordChars == LetterChars \cup DigitChars

KATTA == <<"K", "A", "T", "T", "A">>

QUINTAL == <<"Q", "U", "I", "N", "T", "A", "L">>

BAG == <<" ", "B", "A", "G">>

CALL == <<"C", "A", "L", "L">>

MARKET == <<"M", "A", "R", "K", "E", "T">>

PLUS_ZERO == <<"+", "0">>

\* the word w stands in s at index i
Matches(s, i, w) ==
    /\ i + Len(w) - 1 <= Len(s)
    /\ \A k \in 1..Len(w) : s[i + k - 1] = w[k]

\* the index after the longest run of characters of S that starts at i
Skip(s, i, S) ==
    CHOOSE j \in i..(Len(s) + 1) :
        /\ \A k \in i..(j - 1) : s[k] \in S
        /\ (j = Len(s) + 1 \/ s[j] \notin S)

\* String.prototype.trim
TrimText(s) ==
    LET a == Skip(s, 1, Whitespace)
    IN  IF a > Len(s) THEN <<>>
        ELSE SubSeq(s, a, CHOOSE b \in a..Len(s) :
                             /\ s[b] \notin Whitespace
                             /\ \A k \in (b + 1)..Len(s) : s[k] \in Whitespace)

\* text.split('\n')
RECURSIVE SplitLines(_)
SplitLines(s) ==
    IF \A i \in 1..Len(s) : s[i] # "\n" THEN <<s>>
    ELSE LET i == CHOOSE i \in 1..Len(s) : s[i] = "\n" /\ \A k \in 1..(i - 1) : s[k] # "\n"
         IN  <<SubSeq(s, 1, i - 1)>> \o SplitLines(SubSeq(s, i + 1, Len(s)))

\* lines.join('\n')
RECURSIVE JoinLines(_)
JoinLines(lines) ==
    IF Len(lines) = 0 THEN <<>>
    ELSE IF Len(lines) = 1 THEN lines[1]
    ELSE lines[1] \o <<"\n">> \o JoinLines(Tail(lines))

\* parseInt of a run of digits
RECURSIVE ParseInt(_)
ParseInt(d) ==
    IF Len(d) = 0 THEN 0
    ELSE 10 * ParseInt(SubSeq(d, 1, Len(d) - 1))
         + (CHOOSE v \in 0..9 : Digits[v + 1] = d[Len(d)])

\* the decimal digits of a number, as the template literal prints it
RECURSIVE NumberToText(_)
NumberToText(n) ==
    IF n < 10 THEN <<Digits[n + 1]>>
    ELSE NumberToText(n \div 10) \o <<Digits[(n % 10) + 1]>>

\* line 164: the line holds a marker; on Alphabet the alternatives other
\* than NA (and NAD, which NA covers) cannot occur
HasMarker(line) == \E i \in 1..Len(line) : Matches(line, i, <<"N", "A">>)

\* lines 163-165
DropMarkerLines(s) == JoinLines(SelectSeq(SplitLines(s), LAMBDA line : ~HasMarker(line)))

\* line 168: replace(/\s?\+0\s?/g, '')
RECURSIVE RemovePlusZero(_, _)
RemovePlusZero(s, i) ==
    IF i > Len(s) THEN <<>>
    ELSE LET start == IF s[i] \in Whitespace /\ Matches(s, i + 1, PLUS_ZERO) THEN i + 1 ELSE i
         IN  IF Matches(s, start, PLUS_ZERO)
             THEN LET e == start + 2
                  IN  RemovePlusZero(s, IF e <= Len(s) /\ s[e] \in Whitespace THEN e + 1 ELSE e)
             ELSE <<s[i]>> \o RemovePlusZero(s, i + 1)

\* mutant: the lower bound is rounded down
HalfDown(n) == n \div 2

\* lines 172 and 177: Math.ceil(parseInt(p1) / 2)
HalfUp(n) == (n + 1) \div 2

\* line 173: Math.floor(parseInt(p2) / 2)
HalfFloor(n) == n \div 2

\* lines 183, 184 and 188: parseInt(p) * 2
Twice(n) == n * 2

\* where /(\d+)\s*-\s*(\d+)\s*/ matches at i: the ends of the two runs of
\* digits and the index after the match (0 when there is no match)
RangeAt(s, i) ==
    LET j == Skip(s, i, DigitChars)
        k == Skip(s, j, Whitespace)
        l == IF k <= Len(s) /\ s[k] = "-" THEN Skip(s, k + 1, Whitespace) ELSE 0
        m == IF l > 0 THEN Skip(s, l, DigitChars) ELSE 0
    IN  IF j > i /\ l > 0 /\ m > l
        THEN [p1 |-> SubSeq(s, i, j - 1), p2 |-> SubSeq(s, l, m - 1),
              end |-> Skip(s, m, Whitespace)]
        ELSE [p1 |-> <<>>, p2 |-> <<>>, end |-> 0]

\* lines 171-175: replace(/(\d+)\s*-\s*(\d+)\s*KATTA/gi, ...)
RECURSIVE HalveKattaRange(_, _)
HalveKattaRange(s, i) ==
    IF i > Len(s) THEN <<>>
    ELSE LET r == RangeAt(s, i)
         IN  IF r.end > 0 /\ Matches(s, r.end, KATTA)
             THEN NumberToText(HalfUp(ParseInt(r.p1))) \o <<"-">>
                  \o NumberToText(HalfFloor(ParseInt(r.p2))) \o BAG
                  \o HalveKattaRange(s, r.end + Len(KATTA))
             ELSE <<s[i]>> \o HalveKattaRange(s, i + 1)

\* lines 176-179: replace(/(\d+)\s*KATTA/gi, ...) with Math.ceil(n / 2)
RECURSIVE HalveKatta(_, _)
HalveKatta(s, i) ==
    IF i > Len(s) THEN <<>>
    ELSE LET j == Skip(s, i, DigitChars)
             k == Skip(s, j, Whitespace)
         IN  IF j > i /\ Matches(s, k, KATTA)
             THEN NumberToText(HalfUp(ParseInt(SubSeq(s, i, j - 1)))) \o BAG
                  \o HalveKatta(s, k + Len(KATTA))
             ELSE <<s[i]>> \o HalveKatta(s, i + 1)

\* the index after QUINTAL(?:S)? at k (0 when it does not stand there)
QuintalEnd(s, k) ==
    IF ~Matches(s, k, QUINTAL) THEN 0
    ELSE IF Matches(s, k + Len(QUINTAL), <<"S">>) THEN k + Len(QUINTAL) + 1
    ELSE k + Len(QUINTAL)

\* lines 182-186: replace(/(\d+)\s*-\s*(\d+)\s*QUINTAL(?:S)?/gi, ...)
RECURSIVE DoubleQuintalRange(_, _)
DoubleQuintalRange(s, i) ==
    IF i > Len(s) THEN <<>>
    ELSE LET r == RangeAt(s, i)
         IN  IF r.end > 0 /\ QuintalEnd(s, r.end) > 0
             THEN NumberToText(Twice(ParseInt(r.p1))) \o <<"-">>
                  \o NumberToText(Twice(ParseInt(r.p2))) \o BAG
                  \o DoubleQuintalRange(s, QuintalEnd(s, r.end))
             ELSE <<s[i]>> \o DoubleQuintalRange(s, i + 1)

\* lines 187-190: replace(/(\d+)\s*QUINTAL(?:S)?/gi, ...)
RECURSIVE DoubleQuintal(_, _)
DoubleQuintal(s, i) ==
    IF i > Len(s) THEN <<>>
    ELSE LET j == Skip(s, i, DigitChars)
             k == Skip(s, j, Whitespace)
         IN  IF j > i /\ QuintalEnd(s, k) > 0
             THEN NumberToText(Twice(ParseInt(SubSeq(s, i, j - 1)))) \o BAG
                  \o DoubleQuintal(s, QuintalEnd(s, k))
             ELSE <<s[i]>> \o DoubleQuintal(s, i + 1)

\* lines 171-190: the four conversions, in the order of the code
ConvertUnits(s) ==
    DoubleQuintal(DoubleQuintalRange(HalveKatta(HalveKattaRange(s, 1), 1), 1), 1)

\* \b between s[i - 1] and s[i]
WordBoundary(s, i) ==
    (i > 1 /\ s[i - 1] \in WordChars) # (i <= Len(s) /\ s[i] \in WordChars)

\* the ways (?:\+?\d{1,3}[-.\s]?)? can match, in the order the regular
\* expression tries them: with the plus sign first, the longer run of digits
\* first, the separator first, and without the group last
PhonePrefixes ==
    [n \in 1..13 |->
        IF n = 13 THEN [plus |-> 0, digits |-> 0, sep |-> 0]
        ELSE [plus   |-> 1 - ((n - 1) \div 6),
              digits |-> 3 - (((n - 1) % 6) \div 2),
              sep    |-> 1 - ((n - 1) % 2)]]

\* the index after the match of line 193 at i with one prefix (0 for none)
PhoneEnd(s, i, prefix) ==
    LET a == i + prefix.plus
        b == a + prefix.digits
        c == b + prefix.sep
        e == c + 10
    IN  IF /\ e <= Len(s) + 1
           /\ WordBoundary(s, i)
           /\ (prefix.plus = 1 => s[i] = "+")
           /\ \A x \in a..(b - 1) : s[x] \in DigitChars
           /\ (prefix.sep = 1 => s[b] \in Whitespace \cup {"-"})
           /\ \A x \in c..(e - 1) : s[x] \in DigitChars
           /\ WordBoundary(s, e)
        THEN e ELSE 0

\* line 193: replace(/\b(?:\+?\d{1,3}[-.\s]?)?(\d{10})\b/g, '')
RECURSIVE RemovePhoneNumbers(_, _)
RemovePhoneNumbers(s, i) ==
    IF i > Len(s) THEN <<>>
    ELSE LET hits == {n \in 1..Len(PhonePrefixes) : PhoneEnd(s, i, PhonePrefixes[n]) > 0}
         IN  IF hits # {}
             THEN RemovePhoneNumbers(s,
                      PhoneEnd(s, i, PhonePrefixes[CHOOSE n \in hits : \A o \in hits : n <= o]))
             ELSE <<s[i]>> \o RemovePhoneNumbers(s, i + 1)

\* line 194: replace(/(?:...|CALL|...)\s*[:\d\s\-\/]*\S*/gi, ''): the phrase,
\* the whitespace, digits and hyphens after it, and the run of
\* non-whitespace next
RECURSIVE RemoveMarketing(_, _)
RemoveMarketing(s, i) ==
    IF i > Len(s) THEN <<>>
    ELSE IF Matches(s, i, CALL)
         THEN RemoveMarketing(s, Skip(s, Skip(s, i + Len(CALL), Whitespace \cup DigitChars \cup {"-"}),
                                      Alphabet \ Whitespace))
         ELSE <<s[i]>> \o RemoveMarketing(s, i + 1)

\* line 200: the places of MARKET that /^(\w+(?:\s+\w+)*?)\s+MARKET/i can
\* match in a line: words only before it, then whitespace
MarketPlaces(line) ==
    {k \in 3..Len(line) :
        /\ Matches(line, k, MARKET)
        /\ line[k - 1] = " "
        /\ line[1] \in WordChars
        /\ \A j \in 1..(k - 1) : line[j] \in WordChars \cup {" "}}

\* lines 199-204: the market name on a line of its own
FormatMarketLine(line) ==
    IF MarketPlaces(line) = {} THEN line
    ELSE LET k    == CHOOSE k \in MarketPlaces(line) : \A o \in MarketPlaces(line) : k <= o
             rest == TrimText(SubSeq(line, k + Len(MARKET), Len(line)))
         IN  TrimText(SubSeq(line, 1, k - 1))
             \o (IF Len(rest) > 0 THEN <<"\n">> \o rest ELSE <<>>)

\* lines 198-205
FormatMarketNames(s) ==
    LET lines == SplitLines(s)
    IN  JoinLines([n \in 1..Len(lines) |-> FormatMarketLine(lines[n])])

\* lines 208-211: trim the lines and drop the empty ones
TrimLines(s) ==
    LET lines   == SplitLines(s)
        trimmed == [n \in 1..Len(lines) |-> TrimText(lines[n])]
    IN  JoinLines(SelectSeq(trimmed, LAMBDA line : Len(line) > 0))

\* lines 159-221; toUpperCase and the removal of emoji change no text over
\* Alphabet
applyFormattingRules(text) ==
    TrimLines(FormatMarketNames(RemoveMarketing(RemovePhoneNumbers(ConvertUnits(
        RemovePlusZero(DropMarkerLines(text), 1)), 1), 1)))

\* the texts to format: up to n pieces, each a word with or without a space
\* before it, with fewer than ten digits in all (ten digits in a row are a
\* phone number to line 193)
FormatWords == {<<"1", "0">>, KATTA, CALL, MARKET, PLUS_ZERO, <<"N">>, <<"A">>}

FormatPieces == FormatWords \cup {<<" ">> \o w : w \in FormatWords}

RECURSIVE FormatTexts(_)
FormatTexts(n) ==
    IF n = 0 THEN {<<>>}
    ELSE LET shorter == FormatTexts(n - 1)
         IN  shorter \cup
             {t \in {q \o w : q \in shorter, w \in FormatPieces} :
                 Cardinality({i \in 1..Len(t) : t[i] \in DigitChars}) < 10}

\* no quantity with a unit is being formatted
NoUnit == [a |-> 0, b |-> 0, range |-> FALSE, word |-> <<>>]

\* no text is being formatted
NoText == [text |-> <<>>, runs |-> 0, out |-> <<>>, prev |-> <<>>, unit |-> NoUnit]

\* the unit words of lines 171-190
UnitWords == {KATTA, QUINTAL, QUINTAL \o <<"S">>}

\* quantities besides the small ones: those of the examples of the
\* documentation, and two whose conversion has ten digits
UnitSamples == {10, 20, 50, 100, 101, 200, 500000000, 1999999999}

\* "a KATTA", "a-b KATTA", "a QUINTAL", ... with quantities up to n and
\* those of UnitSamples (twice the quantity stays below 2^31)
UnitCases(n) ==
    {u \in [a : (0..n) \cup UnitSamples, b : (0..n) \cup UnitSamples,
            range : BOOLEAN, word : UnitWords] :
        /\ (~u.range => u.b = 0)
        /\ (u.word # KATTA => u.a <= 500000000 /\ u.b <= 500000000)}

\* the text of a quantity or a range of quantities with its unit
UnitText(u) ==
    NumberToText(u.a) \o (IF u.range THEN <<"-">> \o NumberToText(u.b) ELSE <<>>)
    \o <<" ">> \o u.word

(***************************************************************************)
(* geminiProcessor.js:380-393, the corrections of the Telugu text, on      *)
(* texts written as sequences of characters.  A Telugu character is        *)
(* written by its name in Latin letters: ra aa ka is the mistranslation of *)
(* "arrival" (line 382), ra aa ba dda u la u the designated term, and      *)
(* ka m da i, a space, pa pa virama pa u the designated name of TOOR DAL   *)
(* (line 115).  The texts are made of TeluguPieces, so of the crop names   *)
(* of line 116 only TUR and ka m da i, a space, da aa la virama (the fifth *)
(* alternative, in Telugu script) can stand in them.                       *)
(***************************************************************************)
ARRIVAL_TOKEN == <<"ra", "aa", "ka">>

ARRIVAL_TERM == <<"ra", "aa", "ba", "dda", "u", "la", "u">>

KANDI_PAPPU == <<"ka", "m", "da", "i", " ", "pa", "pa", "virama", "pa", "u">>

TUR == <<"T", "U", "R">>

KANDI_DAL == <<"ka", "m", "da", "i", " ", "da", "aa", "la", "virama">>

\* the alternatives of the regular expression of line 116 that can stand in
\* a text of the model, in its order
ToorDalRenderings == <<TUR, KANDI_DAL>>

\* [:\-.] of line 382 (the en dash of the class is in no text of the model)
ArrivalPunctuation == {":", "-", "."}

\* mutant: replace without the g flag, the first occurrence only
RECURSIVE ArrivalReplaceFirst(_, _)
ArrivalReplaceFirst(s, i) ==
    IF i > Len(s) THEN <<>>
    ELSE IF Matches(s, i, ARRIVAL_TOKEN)
         THEN LET j == Skip(s, i + Len(ARRIVAL_TOKEN), Whitespace)
                  e == IF j <= Len(s) /\ s[j] \in ArrivalPunctuation THEN j + 1 ELSE j
              IN  ARRIVAL_TERM \o SubSeq(s, e, Len(s))
         ELSE <<s[i]>> \o ArrivalReplaceFirst(s, i + 1)

\* line 382: replace(/<token>\s*[:\-.]?/g, <term>)
RECURSIVE ArrivalReplace(_, _)
ArrivalReplace(s, i) ==
    IF i > Len(s) THEN <<>>
    ELSE IF Matches(s, i, ARRIVAL_TOKEN)
         THEN LET j == Skip(s, i + Len(ARRIVAL_TOKEN), Whitespace)
                  e == IF j <= Len(s) /\ s[j] \in ArrivalPunctuation THEN j + 1 ELSE j
              IN  ARRIVAL_TERM \o ArrivalReplace(s, e)
         ELSE <<s[i]>> \o ArrivalReplace(s, i + 1)

\* the first alternative of line 116 that matches at i between two \b
CropNameMatch(s, i) ==
    {k \in 1..Len(ToorDalRenderings) :
        /\ Matches(s, i, ToorDalRenderings[k])
        /\ WordBoundary(s, i)
        /\ WordBoundary(s, i + Len(ToorDalRenderings[k]))
        /\ \A h \in 1..(k - 1) :
              ~(/\ Matches(s, i, ToorDalRenderings[h])
                /\ WordBoundary(s, i + Len(ToorDalRenderings[h])))}

\* line 390 for TOOR DAL: replace(/\b(...|TUR|...)\b/gi, desired); \b is the
\* boundary of the ASCII word characters
RECURSIVE CropNameReplace(_, _)
CropNameReplace(s, i) ==
    IF i > Len(s) THEN <<>>
    ELSE IF CropNameMatch(s, i) # {}
         THEN KANDI_PAPPU
              \o CropNameReplace(s, i + Len(ToorDalRenderings[CHOOSE k \in CropNameMatch(s, i) : TRUE]))
         ELSE <<s[i]>> \o CropNameReplace(s, i + 1)

\* lines 380-393 for a text that is not empty: the text after the
\* correction of "arrival" (fixed) and after the crop name correction (out)
correctTelugu(name, te) ==
    LET fixed == TrimText(ArrivalReplace(te, 1))
    IN  [fixed |-> fixed,
         out   |-> IF name = "TOOR DAL" THEN CropNameReplace(fixed, 1) ELSE fixed]

\* the Telugu texts of the oracle: up to n pieces
TeluguPieces ==
    {ARRIVAL_TOKEN, <<"ra", "aa">>, <<"ka">>, <<" ">>, <<":">>, TUR, KANDI_DAL, <<"5">>}

RECURSIVE TeluguTexts(_)
TeluguTexts(n) ==
    IF n = 0 THEN {<<>>}
    ELSE LET shorter == TeluguTexts(n - 1)
         IN  shorter \cup {q \o w : q \in shorter, w \in TeluguPieces}

\* the standardized names of the offers: one with a designated Telugu name
\* and one without
TeluguNames == {"TOOR DAL", "TURMERIC"}

\* no Telugu text is being corrected
NoTelugu == [name |-> "", te |-> <<>>, fixed |-> <<>>, out |-> <<>>, done |-> FALSE]

(***************************************************************************)
(* Texts.  A text is one string; the Telugu of the model is written in     *)
(* Latin letters: RAKA stands for the mistranslation of "arrival" and      *)
(* RABADULU for the designated term, KANDI PAPPU for the designated        *)
(* rendering of TOOR DAL.                                                  *)
(***************************************************************************)
\* applyFormattingRules on the English texts of the handler model: they are
\* already in formatted form, except the whitespace-only text, whose single
\* line is trimmed and dropped, and the text whose single line holds the
\* letters NA (in SONA) and is dropped by the filter of line 164
ApplyFormattingRules(text) == IF text \in {" ", "RICE SONA: 4000"} THEN "" ELSE text

\* details['te'].replace(/RAKA\s*[:\-.]?/g, 'RABADULU').trim()
ArrivalCorrection(te) ==
    CASE te = "TUR SUDAN RAKA: 500" -> "TUR SUDAN RABADULU 500"
      [] te = "Translation not available in lenient mode. Original: "
                                    -> "Translation not available in lenient mode. Original:"
      [] OTHER                      -> Trim(te)

\* PULSES_TELUGU_FALLBACK_MAPPING[name] exists
HasTeluguFallback(name) ==
    name \in {"CHANA DAL", "TOOR DAL", "URAD DAL", "MOONG DAL", "MASUR DAL", "MATAR"}

\* details['te'].replace(regexToReplace, desiredTeluguName)
CropNameCorrection(name, te) ==
    CASE name = "TOOR DAL" /\ te = "TUR SUDAN RABADULU 500"
             -> "KANDI PAPPU SUDAN RABADULU 500"
      [] name = "TOOR DAL" /\ te = "Translation not available in lenient mode. Original: TUR SUDAN: 6250"
             -> "Translation not available in lenient mode. Original: KANDI PAPPU SUDAN: 6250"
      [] OTHER -> te

(***************************************************************************)
(* The oracle.  A response either throws, carries no text, or carries a    *)
(* text.  Of a text the model keeps what the parsers of the code see:      *)
(* what JSON.parse makes of the fenced content (of the whole text when     *)
(* there is no fenced block), and the objects in it: the elements of the   *)
(* array when it parses as an array, the balanced-brace objects the        *)
(* lenient scan finds and parses otherwise.                                *)
(***************************************************************************)
C_TUR ==
    [extractedName |-> "Tur Sudan", standardizedName |-> "Toor Dal",
     category |-> "Pulses", hasDetails |-> TRUE,
     details |-> [en |-> "TUR SUDAN: 6250", te |-> "TUR SUDAN RAKA: 500"]]

C_HALDI ==
    [extractedName |-> "Haldi", standardizedName |-> "TURMERIC",
     category |-> "spices", hasDetails |-> TRUE,
     details |-> [en |-> "HALDI: 9000", te |-> "PASUPU: 9000"]]

C_RICE ==
    [extractedName |-> "Rice Sona", standardizedName |-> "RICE",
     category |-> "RICE", hasDetails |-> TRUE,
     details |-> [en |-> "RICE SONA: 4000", te |-> "BIYYAM SONA: 4000"]]

C_NOCAT ==
    [extractedName |-> "Gram", standardizedName |-> "CHANA DAL",
     category |-> Undefined, hasDetails |-> TRUE,
     details |-> [en |-> "GRAM: 5000", te |-> Undefined]]

C_BLANK ==
    [extractedName |-> "Moong", standardizedName |-> "MOONG DAL",
     category |-> "PULSES", hasDetails |-> TRUE,
     details |-> [en |-> " ", te |-> Undefined]]

Candidates == {C_TUR, C_HALDI, C_RICE, C_NOCAT, C_BLANK}

\* further objects, for the exploration of extraction on its own: the same
\* crop once more under a name that differs in letter case only
C_TUR_AGAIN ==
    [extractedName |-> "TUR SUDAN", standardizedName |-> "ARHAR",
     category |-> "Sugar", hasDetails |-> TRUE,
     details |-> [en |-> "TUR SUDAN: 6300", te |-> Undefined]]

\* an object without extractedName
C_NONAME ==
    [extractedName |-> Undefined, standardizedName |-> "URAD DAL",
     category |-> "PULSES", hasDetails |-> TRUE,
     details |-> [en |-> "URAD: 7000", te |-> Undefined]]

\* an object without details
C_NODETAILS ==
    [extractedName |-> "Sugar", standardizedName |-> "SUGAR",
     category |-> "SUGAR", hasDetails |-> FALSE,
     details |-> [en |-> Undefined, te |-> Undefined]]

\* an object whose details lack the English text
C_NOEN ==
    [extractedName |-> "Chilli", standardizedName |-> "CHILLI",
     category |-> "SPICES", hasDetails |-> TRUE,
     details |-> [en |-> Undefined, te |-> "MIRCHI: 12000"]]

\* objects whose names the oracle left unstandardized: an alias in lower
\* case, a prefix of an alias, and a two-word alias
C_LOWER ==
    [extractedName |-> "tur", standardizedName |-> "tur",
     category |-> "Pulses", hasDetails |-> TRUE,
     details |-> [en |-> "TUR: 6100", te |-> Undefined]]

C_PREFIX ==
    [extractedName |-> "Tu", standardizedName |-> "Tu",
     category |-> "Pulses", hasDetails |-> TRUE,
     details |-> [en |-> "TU: 6000", te |-> Undefined]]

C_TWOWORDS ==
    [extractedName |-> "Kali Mirch", standardizedName |-> "Kali Mirch",
     category |-> "spices", hasDetails |-> TRUE,
     details |-> [en |-> "KALI MIRCH: 700", te |-> Undefined]]

\* an object whose only text is the empty string
C_EMPTYTEXT ==
    [extractedName |-> "Jeera", standardizedName |-> "JEERA",
     category |-> "SPICES", hasDetails |-> TRUE,
     details |-> [en |-> "", te |-> Undefined]]

\* objects whose names are numbers (varieties of rice known by a number)
C_1121 ==
    [extractedName |-> "1121", standardizedName |-> "1121 RICE",
     category |-> "KIRANA", hasDetails |-> TRUE,
     details |-> [en |-> "1121: 8500", te |-> Undefined]]

C_1509 ==
    [extractedName |-> "1509", standardizedName |-> "1509 RICE",
     category |-> "KIRANA", hasDetails |-> TRUE,
     details |-> [en |-> "1509: 7900", te |-> Undefined]]

\* an object whose details hold, next to the English text, a key that is
\* the name of a field of the offer
C_OWNNAME ==
    [extractedName |-> "Gud", standardizedName |-> "JAGGERY",
     category |-> "SUGAR", hasDetails |-> TRUE,
     details |-> [en |-> "GUD: 4200", te |-> Undefined, extractedName |-> "Jaggery"]]

ExtractionCandidates ==
    Candidates \cup {C_TUR_AGAIN, C_NONAME, C_NODETAILS, C_NOEN, C_LOWER, C_PREFIX,
                     C_TWOWORDS, C_EMPTYTEXT, C_1121, C_1509, C_OWNNAME}

RECURSIVE SeqsUpTo(_, _)
SeqsUpTo(S, n) ==
    IF n = 0 THEN {<<>>}
    ELSE LET shorter == SeqsUpTo(S, n - 1)
         IN  shorter \cup {Append(q, c) : q \in {p \in shorter : Len(p) = n - 1}, c \in S}

\* the responses that carry at most n objects; parse is "array" when
\* JSON.parse returns an array and "failed" when it throws or returns
\* something else (both end in the catch of line 336)
Responses(n) ==
    {[kind |-> "throw", fenced |-> FALSE, parse |-> "failed", items |-> <<>>],
     [kind |-> "notext", fenced |-> FALSE, parse |-> "failed", items |-> <<>>]}
    \cup [kind : {"text"}, fenced : {TRUE}, parse : {"array", "failed"},
          items : SeqsUpTo(Candidates, n)]

\* the texts of the oracle with up to MaxOffers objects, with a fenced block
\* (```json ... ```) or without one
ExtractionResponses ==
    [kind : {"text"}, fenced : BOOLEAN, parse : {"array", "failed"},
     items : SeqsUpTo(ExtractionCandidates, MaxOffers)]

NoResponse == [kind |-> "none", fenced |-> FALSE, parse |-> "failed", items |-> <<>>]

(***************************************************************************)
(* geminiProcessor.js: extractAndTranslateCropOffers after the oracle has  *)
(* answered.                                                               *)
(***************************************************************************)
\* mutant: a text without a fenced block is never parsed as it is
StrictParseNeedsFence(r) == r.fenced /\ r.parse = "array"

\* lines 323-335: the strict parse yields an array; without a fenced block
\* the whole text is parsed
StrictParseOk(r) == r.parse = "array"

\* parseLeniently, line 445: the filter on the objects the scan parsed
LooksLikeOffer(o) ==
    /\ Truthy(o.extractedName)
    /\ Truthy(o.standardizedName)
    /\ Truthy(o.category)
    /\ o.hasDetails

\* parseLeniently: the objects of the scan that pass the filter
ParseLeniently(r) == SelectSeq(r.items, LooksLikeOffer)

\* lines 346: applyFormattingRules(item.details.en) calls split on undefined
LenientItemThrows(item) == item.details.en = Undefined

\* mutant: the lenient branch leaves the Telugu text out
LenientItemEnglishOnly(item) ==
    LET baseCropName     == ToUpperCase(FirstWord(item.extractedName))
        mapped           == HasFlatMapping(baseCropName)
        formattedEnglish == ApplyFormattingRules(item.details.en)
    IN  [extractedName    |-> item.extractedName,
         standardizedName |-> IF mapped
                              THEN FLATTENED_CROP_MAPPING(baseCropName).standardizedName
                              ELSE ToUpperCase(item.extractedName),
         category         |-> IF mapped
                              THEN FLATTENED_CROP_MAPPING(baseCropName).category
                              ELSE "UNKNOWN",
         hasDetails       |-> TRUE,
         details          |-> [en |-> formattedEnglish,
                               te |-> Undefined]]

\* lines 340-359: the offer the lenient branch makes of one scanned object
LenientItem(item) ==
    LET baseCropName     == ToUpperCase(FirstWord(item.extractedName))
        mapped           == HasFlatMapping(baseCropName)
        formattedEnglish == ApplyFormattingRules(item.details.en)
    IN  [extractedName    |-> item.extractedName,
         standardizedName |-> IF mapped
                              THEN FLATTENED_CROP_MAPPING(baseCropName).standardizedName
                              ELSE ToUpperCase(item.extractedName),
         category         |-> IF mapped
                              THEN FLATTENED_CROP_MAPPING(baseCropName).category
                              ELSE "UNKNOWN",
         hasDetails       |-> TRUE,
         details          |-> [en |-> formattedEnglish,
                               te |-> IF \E i \in 1..Len(TARGET_LANGUAGES) :
                                             TARGET_LANGUAGES[i] = "te"
                                      THEN "Translation not available in lenient mode. Original: "
                                               \o formattedEnglish
                                      ELSE Undefined]]

\* line 372: the validation of one candidate
Malformed(c) ==
    \/ ~Truthy(c.standardizedName)
    \/ ~Truthy(c.category)
    \/ ~c.hasDetails
    \/ (c.details.en = Undefined /\ c.details.te = Undefined)

\* lines 380-393: the corrections of the Telugu text
CorrectTelugu(name, te) ==
    IF ~Truthy(te) THEN te
    ELSE LET fixed == ArrivalCorrection(te)
         IN  IF HasTeluguFallback(name) THEN CropNameCorrection(name, fixed)
             ELSE fixed

\* lines 395-400: { field: value, ...details }; a key of details with the
\* name of the field comes later in the literal and takes its place
SpreadOver(details, field, value) ==
    IF field \in DOMAIN details THEN details[field] ELSE value

\* lines 377-400: the entry the loop stores for a valid candidate
NormalizedOffer(c) ==
    LET name == ToUpperCase(c.standardizedName)
    IN  [key              |-> ToUpperCase(c.extractedName),
         extractedName    |-> SpreadOver(c.details, "extractedName", c.extractedName),
         standardizedName |-> SpreadOver(c.details, "standardizedName", name),
         category         |-> SpreadOver(c.details, "category", ToUpperCase(c.category)),
         en               |-> c.details.en,
         te               |-> CorrectTelugu(name, c.details.te)]

\* mutant: an entry that exists is kept and the later candidate is lost
PutOfferKeepFirst(acc, offer) ==
    IF \E i \in 1..Len(acc) : acc[i].key = offer.key THEN acc ELSE Append(acc, offer)

\* the key is an array index (the canonical text of an integer): of the
\* keys of the model those of C_1121 and C_1509
IsArrayIndex(key) == key \in {"1121", "1509"}

\* the integer an array index stands for
IndexValue(key) == IF key = "1121" THEN 1121 ELSE 1509

\* the entry comes before a new entry with this key when for...in (index.js
\* line 169) enumerates the object: array indices first, in ascending
\* order, then the other keys in the order of their creation
EnumeratedBefore(entry, key) ==
    IF IsArrayIndex(key)
    THEN IsArrayIndex(entry.key) /\ IndexValue(entry.key) < IndexValue(key)
    ELSE TRUE

\* finalFormattedOffers[key] = offer, the object kept as its entries in the
\* order of enumeration: an existing key keeps its place
PutOffer(acc, offer) ==
    IF \E i \in 1..Len(acc) : acc[i].key = offer.key
    THEN [i \in 1..Len(acc) |-> IF acc[i].key = offer.key THEN offer ELSE acc[i]]
    ELSE SelectSeq(acc, LAMBDA e : EnumeratedBefore(e, offer.key))
         \o <<offer>>
         \o SelectSeq(acc, LAMBDA e : ~EnumeratedBefore(e, offer.key))

\* lines 369-401: the loop; extractedName.toUpperCase() throws on a valid
\* candidate without extractedName and the outer catch then returns {}
RECURSIVE NormalizeAll(_, _, _)
NormalizeAll(items, i, acc) ==
    IF i > Len(items) THEN acc
    ELSE IF Malformed(items[i]) THEN NormalizeAll(items, i + 1, acc)
    ELSE IF items[i].extractedName = Undefined THEN <<>>
    ELSE NormalizeAll(items, i + 1, PutOffer(acc, NormalizedOffer(items[i])))

\* lines 304-410: what the function returns for an oracle response, as the
\* entries of the returned object in its key order ({} is the empty sequence)
ExtractAndTranslateCropOffers(r) ==
    IF r.kind # "text" THEN <<>>
    ELSE IF StrictParseOk(r) THEN NormalizeAll(r.items, 1, <<>>)
    ELSE LET lenientResult == ParseLeniently(r)
         IN  IF Len(lenientResult) = 0 THEN <<>>
             ELSE IF \E i \in 1..Len(lenientResult) : LenientItemThrows(lenientResult[i])
             THEN <<>>
             ELSE NormalizeAll([i \in 1..Len(lenientResult) |-> LenientItem(lenientResult[i])],
                               1, <<>>)


(***************************************************************************)
(* index.js: the three passes of the message handler.                      *)
(***************************************************************************)
\* mutant: the first pass tests the category alone, not its mapping
HasMappingAnyCategory(category) == Truthy(category)

\* line 173: category && BUYER_GROUP_MAPPING[category]
HasMapping(category) == Truthy(category) /\ category \in DOMAIN BUYER_GROUP_MAPPING

\* lines 175-187: one offer with a mapped category goes into its bucket
AddToGroup(g, offer) ==
    LET g1 == IF \E i \in 1..Len(g) : g[i].category = offer.category THEN g
              ELSE Append(g, [category |-> offer.category, en |-> <<>>, te |-> <<>>])
    IN  [i \in 1..Len(g1) |->
            IF g1[i].category # offer.category THEN g1[i]
            ELSE [category |-> g1[i].category,
                  en |-> IF Truthy(offer.en) THEN Append(g1[i].en, offer.en) ELSE g1[i].en,
                  te |-> IF Truthy(offer.te) THEN Append(g1[i].te, offer.te) ELSE g1[i].te]]

\* mutant: the else branch of the first pass leaves the loop (break) instead
\* of going on to the next offer
RECURSIVE GroupOffersUntilUnmapped(_, _, _)
GroupOffersUntilUnmapped(offers, i, g) ==
    IF i > Len(offers) THEN g
    ELSE IF HasMapping(offers[i].category)
         THEN GroupOffersUntilUnmapped(offers, i + 1, AddToGroup(g, offers[i]))
         ELSE g

\* lines 169-191, the first pass: the buckets in the order their categories
\* were inserted (category keys are upper-case words, never array indices)
RECURSIVE GroupOffers(_, _, _)
GroupOffers(offers, i, g) ==
    IF i > Len(offers) THEN g
    ELSE IF HasMapping(offers[i].category)
         THEN GroupOffers(offers, i + 1, AddToGroup(g, offers[i]))
         ELSE GroupOffers(offers, i + 1, g)

\* the second pass visits (category, language) pairs: position p is
\* category (p \div 2) + 1 in language Langs[(p % 2) + 1]
PosCategory(p) == (p \div 2) + 1

PosLang(p) == Langs[(p % 2) + 1]

\* texts.join(separator), kept as the texts joined
Consolidated(g, p) == g[PosCategory(p)][PosLang(p)]

\* mutant: the test of the trimmed length is lost
NeverBlank(texts) == FALSE

\* message.trim().length > 0 is false: the join of no text, or of one
\* whitespace-only text (two texts have the dashes between them)
IsBlank(texts) == Len(texts) = 0 \/ (Len(texts) = 1 /\ Trim(texts[1]) = "")

\* lines 203 and 227: message && categoryGroups && categoryGroups[lang];
\* only non-empty texts are pushed, so the join is "" just for no text
Dispatchable(g, p) ==
    /\ Len(Consolidated(g, p)) > 0
    /\ g[PosCategory(p)].category \in DOMAIN BUYER_GROUP_MAPPING
    /\ PosLang(p) \in DOMAIN BUYER_GROUP_MAPPING[g[PosCategory(p)].category]

\* the channel of lines 204 and 228
BuyerGroupId(g, p) == BUYER_GROUP_MAPPING[g[PosCategory(p)].category][PosLang(p)]

\* the next pair from p on for which the handler looks a channel up
RECURSIVE NextDispatch(_, _)
NextDispatch(g, p) ==
    IF p >= 2 * Len(g) THEN 2 * Len(g)
    ELSE IF Dispatchable(g, p) THEN p
    ELSE NextDispatch(g, p + 1)

\* mutant: the handler reads the flag again after every await and stops
\* when it finds it OFF
NextPointRechecked(g, p) ==
    LET q == NextDispatch(g, p)
    IN  IF ~botAutomationEnabled THEN [pc |-> "Done", pos |-> q]
        ELSE IF q < 2 * Len(g) THEN [pc |-> "lookup", pos |-> q]
        ELSE IF Truthy(ALL_UPDATES_GROUP_ID) THEN [pc |-> "bcastLookup", pos |-> q]
        ELSE [pc |-> "Done", pos |-> q]

\* where the handler suspends next once the pairs before p are done:
\* a buyer group lookup, the lookup of the third pass (line 252), or the end
NextPoint(g, p) ==
    LET q == NextDispatch(g, p)
    IN  IF q < 2 * Len(g) THEN [pc |-> "lookup", pos |-> q]
        ELSE IF Truthy(ALL_UPDATES_GROUP_ID) THEN [pc |-> "bcastLookup", pos |-> q]
        ELSE [pc |-> "Done", pos |-> q]

\* lines 213 and 237: the entry pushed to allUpdatesContent
Section(g, p) ==
    [label |-> ToUpperCase(g[PosCategory(p)].category), lang |-> PosLang(p),
     texts |-> Consolidated(g, p)]

\* a call of client.sendMessage: target, what the body is made of, outcome
CategorySend(g, p) ==
    [to |-> BuyerGroupId(g, p), kind |-> "category", lang |-> PosLang(p),
     sections |-> <<[label |-> "", lang |-> PosLang(p), texts |-> Consolidated(g, p)]>>,
     status |-> "pending"]

\* lines 259 and 269: banner, then the sections joined by the separator
BroadcastSend(lang, sections) ==
    [to |-> ALL_UPDATES_GROUP_ID, kind |-> "broadcast", lang |-> lang,
     sections |-> sections, status |-> "pending"]

\* the pending send (the last one) gets its outcome
Settle(log, status) ==
    [i \in 1..Len(log) |->
        IF i = Len(log)
        THEN [to |-> log[i].to, kind |-> log[i].kind, lang |-> log[i].lang,
              sections |-> log[i].sections, status |-> status]
        ELSE log[i]]


(***************************************************************************)
(* The initial state: index.js:28, no message received yet.                *)
(***************************************************************************)
Init ==
    /\ botAutomationEnabled = FALSE
    /\ inbox = [m \in Msgs |-> NoMsg]
    /\ pc = [m \in Msgs |-> "idle"]
    /\ processedOffers = [m \in Msgs |-> <<>>]
    /\ groupedMessages = [m \in Msgs |-> <<>>]
    /\ pos = [m \in Msgs |-> 0]
    /\ allUpdatesContent = [m \in Msgs |-> [en |-> <<>>, te |-> <<>>]]
    /\ flagSeen = [m \in Msgs |-> "none"]
    /\ everOn = FALSE
    /\ offDuring = [m \in Msgs |-> FALSE]
    /\ resp = [m \in Msgs |-> NoResponse]
    /\ oracleCalls = [m \in Msgs |-> 0]
    /\ sends = [m \in Msgs |-> <<>>]
    /\ faults = 0
    /\ load \in Loads
    /\ fmt = NoText
    /\ tel = NoTelugu

\* mutant: the handler switches the automation off when it runs
HandlerClearsFlag == botAutomationEnabled' = FALSE

\* no statement of the handler (lines 113-301) assigns the flag
HandlerLeavesFlag == UNCHANGED botAutomationEnabled

\* an external call may fail while the budget of failures lasts
MayFail(outcome) == outcome = "ok" \/ faults < MaxFaults

CountFault(outcome) == faults' = IF outcome = "ok" THEN faults ELSE faults + 1

(***************************************************************************)
(* socket.on('toggle_automation'), index.js:355-359                        *)
(***************************************************************************)
ToggleAutomation(status) ==
    /\ botAutomationEnabled' = status
    /\ everOn' = (everOn \/ status)
    /\ offDuring' = [m \in Msgs |-> offDuring[m] \/ (~status /\ pc[m] = "getChat")]
    /\ UNCHANGED <<handlerVars, flagSeen, resp, oracleCalls, sends, faults, load, fmt, tel>>

(***************************************************************************)
(* client.on('message'), lines 113-139: the transport delivers message m   *)
(* and the handler runs to its first await: msg.getChat() or               *)
(* msg.getContact() of the skip path, msg.getChat() of line 142 otherwise. *)
(***************************************************************************)
Deliver(m, msg) ==
    /\ pc[m] = "idle"
    /\ m <= load.msgs
    /\ \A k \in Msgs : k < m => pc[k] # "idle"
    /\ inbox' = [inbox EXCEPT ![m] = msg]
    /\ flagSeen' = [flagSeen EXCEPT ![m] = IF botAutomationEnabled THEN "on" ELSE "off"]
    /\ pc' = [pc EXCEPT ![m] = IF Admitted(botAutomationEnabled, msg)
                               THEN "getChat" ELSE "skipLookup"]
    /\ HandlerLeavesFlag
    /\ UNCHANGED <<processedOffers, groupedMessages, pos, allUpdatesContent>>
    /\ UNCHANGED <<everOn, offDuring, resp, oracleCalls, sends, faults, load, fmt, tel>>

\* lines 121-134: the lookup of the skip path returns and the handler
\* returns, or it throws outside any try and the invocation is rejected
SkipLookupReturn(m, outcome) ==
    /\ pc[m] = "skipLookup"
    /\ MayFail(outcome)
    /\ CountFault(outcome)
    /\ pc' = [pc EXCEPT ![m] = IF outcome = "ok" THEN "skipped" ELSE "rejected"]
    /\ HandlerLeavesFlag
    /\ UNCHANGED <<inbox, processedOffers, groupedMessages, pos, allUpdatesContent>>
    /\ UNCHANGED <<flagSeen, everOn, offDuring, resp, oracleCalls, sends, load, fmt, tel>>

\* mutant: an invocation goes on only when every earlier one has finished
GetChatReturnInTurn(m, outcome) ==
    /\ pc[m] = "getChat"
    /\ \A k \in Msgs : k < m => pc[k] \in {"Done", "skipped", "rejected"}
    /\ MayFail(outcome)
    /\ CountFault(outcome)
    /\ pc' = [pc EXCEPT ![m] = IF outcome = "ok" THEN "oracle" ELSE "Done"]
    /\ oracleCalls' = [oracleCalls EXCEPT ![m] = IF outcome = "ok" THEN @ + 1 ELSE @]
    /\ HandlerLeavesFlag
    /\ UNCHANGED <<inbox, processedOffers, groupedMessages, pos, allUpdatesContent>>
    /\ UNCHANGED <<flagSeen, everOn, offDuring, resp, sends, load, fmt, tel>>

\* lines 142-147 and geminiProcessor.js:155-305: msg.getChat() returns and
\* the handler calls the oracle, or it throws into the catch of line 295
GetChatReturn(m, outcome) ==
    /\ pc[m] = "getChat"
    /\ MayFail(outcome)
    /\ CountFault(outcome)
    /\ pc' = [pc EXCEPT ![m] = IF outcome = "ok" THEN "oracle" ELSE "Done"]
    /\ oracleCalls' = [oracleCalls EXCEPT ![m] = IF outcome = "ok" THEN @ + 1 ELSE @]
    /\ HandlerLeavesFlag
    /\ UNCHANGED <<inbox, processedOffers, groupedMessages, pos, allUpdatesContent>>
    /\ UNCHANGED <<flagSeen, everOn, offDuring, resp, sends, load, fmt, tel>>


\* mutant: without offers the handler calls the oracle once more
RetryWhenNoOffers(m) ==
    /\ pc' = [pc EXCEPT ![m] = IF oracleCalls[m] < 2 THEN "oracle" ELSE "Done"]
    /\ oracleCalls' = [oracleCalls EXCEPT ![m] = IF @ < 2 THEN @ + 1 ELSE @]
    /\ UNCHANGED <<groupedMessages, pos>>

\* mutant: without offers the handler waits for another answer of the oracle
WaitForOffers(m) ==
    /\ pc' = [pc EXCEPT ![m] = "oracle"]
    /\ UNCHANGED <<groupedMessages, pos, oracleCalls>>

\* lines 290-293: no offers, the handler warns and returns
NoOffers(m) ==
    /\ pc' = [pc EXCEPT ![m] = "Done"]
    /\ UNCHANGED <<groupedMessages, pos, oracleCalls>>

\* geminiProcessor.js:305-410 and index.js:147-206: the oracle answers (or
\* throws), extractAndTranslateCropOffers returns, and the handler runs the
\* first pass and the second pass up to its first lookup
OracleReturn(m, r) ==
    /\ pc[m] = "oracle"
    /\ Len(r.items) <= load.offers
    /\ resp' = [resp EXCEPT ![m] = r]
    /\ LET offers == ExtractAndTranslateCropOffers(r)
           g      == GroupOffers(offers, 1, <<>>)
           next   == NextPoint(g, 0)
       IN  /\ processedOffers' = [processedOffers EXCEPT ![m] = offers]
           /\ IF Len(offers) > 0
              THEN /\ groupedMessages' = [groupedMessages EXCEPT ![m] = g]
                   /\ pc' = [pc EXCEPT ![m] = next.pc]
                   /\ pos' = [pos EXCEPT ![m] = next.pos]
                   /\ UNCHANGED oracleCalls
              ELSE NoOffers(m)
    /\ HandlerLeavesFlag
    /\ UNCHANGED <<inbox, allUpdatesContent>>
    /\ UNCHANGED <<flagSeen, everOn, offDuring, sends, faults, load, fmt, tel>>

\* mutant: the send does not depend on buyerChat.isGroup
LookupReturnUnchecked(m, outcome) ==
    /\ pc[m] = "lookup"
    /\ MayFail(outcome)
    /\ CountFault(outcome)
    /\ LET g    == groupedMessages[m]
           p    == pos[m]
           next == NextPoint(g, p + 1)
       IN  IF outcome # "throw" /\ ~IsBlank(Consolidated(g, p))
           THEN /\ sends' = [sends EXCEPT ![m] = Append(@, CategorySend(g, p))]
                /\ pc' = [pc EXCEPT ![m] = "send"]
                /\ UNCHANGED pos
           ELSE /\ pc' = [pc EXCEPT ![m] = next.pc]
                /\ pos' = [pos EXCEPT ![m] = next.pos]
                /\ UNCHANGED sends
    /\ HandlerLeavesFlag
    /\ UNCHANGED <<inbox, processedOffers, groupedMessages, allUpdatesContent>>
    /\ UNCHANGED <<flagSeen, everOn, offDuring, resp, oracleCalls, load, fmt, tel>>

\* lines 206-220 and 230-244: client.getChatById(buyerGroupId) returns a
\* group ("ok"), returns nothing or no group ("invalid"), or throws; for a
\* group and a message that is not blank the handler calls sendMessage
LookupReturn(m, outcome) ==
    /\ pc[m] = "lookup"
    /\ MayFail(outcome)
    /\ CountFault(outcome)
    /\ LET g    == groupedMessages[m]
           p    == pos[m]
           next == NextPoint(g, p + 1)
       IN  IF outcome = "ok" /\ ~IsBlank(Consolidated(g, p))
           THEN /\ sends' = [sends EXCEPT ![m] = Append(@, CategorySend(g, p))]
                /\ pc' = [pc EXCEPT ![m] = "send"]
                /\ UNCHANGED pos
           ELSE /\ pc' = [pc EXCEPT ![m] = next.pc]
                /\ pos' = [pos EXCEPT ![m] = next.pos]
                /\ UNCHANGED sends
    /\ HandlerLeavesFlag
    /\ UNCHANGED <<inbox, processedOffers, groupedMessages, allUpdatesContent>>
    /\ UNCHANGED <<flagSeen, everOn, offDuring, resp, oracleCalls, load, fmt, tel>>

\* mutant: the catch block sends the same message once more
RetrySend(g, p) == [pc |-> "lookup", pos |-> p]

\* mutant: the catch block leaves the second pass for the third
AbandonSecondPass(g, p) ==
    IF Truthy(ALL_UPDATES_GROUP_ID) THEN [pc |-> "bcastLookup", pos |-> p]
    ELSE [pc |-> "Done", pos |-> p]

\* lines 221-223 and 245-247: the catch block of a per-category send logs
\* the error and the second pass goes on with the next pair
AfterSendError(g, p) == NextPoint(g, p + 1)

\* mutant: the section is pushed whether the send succeeded or threw
PushAlways(acc, outcome, section) == Append(acc, section)

\* lines 210-213 and 234-237: the push to allUpdatesContent follows the
\* awaited sendMessage, so a send that throws skips it
PushAfterSend(acc, outcome, section) ==
    IF outcome = "ok" THEN Append(acc, section) ELSE acc

\* mutant: allUpdatesContent is one object that all invocations push to
SendReturnSharedAccumulator(m, outcome) ==
    /\ pc[m] = "send"
    /\ MayFail(outcome)
    /\ CountFault(outcome)
    /\ LET g    == groupedMessages[m]
           p    == pos[m]
           next == IF outcome = "ok" THEN NextPoint(g, p + 1) ELSE AfterSendError(g, p)
       IN  /\ sends' = [sends EXCEPT ![m] = Settle(@, IF outcome = "ok" THEN "ok" ELSE "failed")]
           /\ allUpdatesContent' =
                 [n \in Msgs |->
                     [allUpdatesContent[n] EXCEPT
                         ![PosLang(p)] = PushAfterSend(@, outcome, Section(g, p))]]
           /\ pc' = [pc EXCEPT ![m] = next.pc]
           /\ pos' = [pos EXCEPT ![m] = next.pos]
    /\ HandlerLeavesFlag
    /\ UNCHANGED <<inbox, processedOffers, groupedMessages>>
    /\ UNCHANGED <<flagSeen, everOn, offDuring, resp, oracleCalls, load, fmt, tel>>

\* lines 210-213, 221-223 and 234-237, 245-247: sendMessage returns and the
\* section is pushed to allUpdatesContent, or it throws into the catch;
\* either way the second pass goes on
SendReturn(m, outcome) ==
    /\ pc[m] = "send"
    /\ MayFail(outcome)
    /\ CountFault(outcome)
    /\ LET g    == groupedMessages[m]
           p    == pos[m]
           next == IF outcome = "ok" THEN NextPoint(g, p + 1) ELSE AfterSendError(g, p)
       IN  /\ sends' = [sends EXCEPT ![m] = Settle(@, IF outcome = "ok" THEN "ok" ELSE "failed")]
           /\ allUpdatesContent' =
                 [allUpdatesContent EXCEPT
                     ![m][PosLang(p)] = PushAfterSend(@, outcome, Section(g, p))]
           /\ pc' = [pc EXCEPT ![m] = next.pc]
           /\ pos' = [pos EXCEPT ![m] = next.pos]
    /\ HandlerLeavesFlag
    /\ UNCHANGED <<inbox, processedOffers, groupedMessages>>
    /\ UNCHANGED <<flagSeen, everOn, offDuring, resp, oracleCalls, load, fmt, tel>>

\* lines 266-274: the Telugu half of the third pass
BroadcastTelugu(m) ==
    IF Len(allUpdatesContent[m].te) > 0
    THEN /\ sends' = [sends EXCEPT ![m] = Append(@, BroadcastSend("te", allUpdatesContent[m].te))]
         /\ pc' = [pc EXCEPT ![m] = "bcastSendTe"]
    ELSE /\ pc' = [pc EXCEPT ![m] = "Done"]
         /\ UNCHANGED sends

\* lines 254-264, 276-283: client.getChatById(ALL_UPDATES_GROUP_ID) returns
\* or throws; for a group the handler sends the English bundle if there is
\* one, else goes on to the Telugu one
BroadcastLookupReturn(m, outcome) ==
    /\ pc[m] = "bcastLookup"
    /\ MayFail(outcome)
    /\ CountFault(outcome)
    /\ IF outcome # "ok"
       THEN /\ pc' = [pc EXCEPT ![m] = "Done"]
            /\ UNCHANGED sends
       ELSE IF Len(allUpdatesContent[m].en) > 0
       THEN /\ sends' = [sends EXCEPT ![m] = Append(@, BroadcastSend("en", allUpdatesContent[m].en))]
            /\ pc' = [pc EXCEPT ![m] = "bcastSendEn"]
       ELSE BroadcastTelugu(m)
    /\ HandlerLeavesFlag
    /\ UNCHANGED <<inbox, processedOffers, groupedMessages, pos, allUpdatesContent>>
    /\ UNCHANGED <<flagSeen, everOn, offDuring, resp, oracleCalls, load, fmt, tel>>

\* lines 259-274, 280-283: the English broadcast returns and the Telugu half
\* follows, or it throws into the catch of the third pass
BroadcastEnglishReturn(m, outcome) ==
    /\ pc[m] = "bcastSendEn"
    /\ MayFail(outcome)
    /\ CountFault(outcome)
    /\ IF outcome = "ok"
       THEN \E log \in {Settle(sends[m], "ok")} :
               IF Len(allUpdatesContent[m].te) > 0
               THEN /\ sends' = [sends EXCEPT ![m] =
                                    Append(log, BroadcastSend("te", allUpdatesContent[m].te))]
                    /\ pc' = [pc EXCEPT ![m] = "bcastSendTe"]
               ELSE /\ sends' = [sends EXCEPT ![m] = log]
                    /\ pc' = [pc EXCEPT ![m] = "Done"]
       ELSE /\ sends' = [sends EXCEPT ![m] = Settle(@, "failed")]
            /\ pc' = [pc EXCEPT ![m] = "Done"]
    /\ HandlerLeavesFlag
    /\ UNCHANGED <<inbox, processedOffers, groupedMessages, pos, allUpdatesContent>>
    /\ UNCHANGED <<flagSeen, everOn, offDuring, resp, oracleCalls, load, fmt, tel>>

\* lines 269-271, 280-283: the Telugu broadcast returns or throws
BroadcastTeluguReturn(m, outcome) ==
    /\ pc[m] = "bcastSendTe"
    /\ MayFail(outcome)
    /\ CountFault(outcome)
    /\ sends' = [sends EXCEPT ![m] = Settle(@, IF outcome = "ok" THEN "ok" ELSE "failed")]
    /\ pc' = [pc EXCEPT ![m] = "Done"]
    /\ HandlerLeavesFlag
    /\ UNCHANGED <<inbox, processedOffers, groupedMessages, pos, allUpdatesContent>>
    /\ UNCHANGED <<flagSeen, everOn, offDuring, resp, oracleCalls, load, fmt, tel>>

CallOutcomes == {"ok", "throw"}

LookupOutcomes == {"ok", "invalid", "throw"}

Next ==
    \/ \E status \in BOOLEAN : ToggleAutomation(status)
    \/ \E m \in Msgs, msg \in InboundMsgs : Deliver(m, msg)
    \/ \E m \in Msgs, outcome \in CallOutcomes : SkipLookupReturn(m, outcome)
    \/ \E m \in Msgs, outcome \in CallOutcomes : GetChatReturn(m, outcome)
    \/ \E m \in Msgs, r \in Responses(MaxOffers) : OracleReturn(m, r)
    \/ \E m \in Msgs, outcome \in LookupOutcomes : LookupReturn(m, outcome)
    \/ \E m \in Msgs, outcome \in CallOutcomes : SendReturn(m, outcome)
    \/ \E m \in Msgs, outcome \in LookupOutcomes : BroadcastLookupReturn(m, outcome)
    \/ \E m \in Msgs, outcome \in CallOutcomes : BroadcastEnglishReturn(m, outcome)
    \/ \E m \in Msgs, outcome \in CallOutcomes : BroadcastTeluguReturn(m, outcome)

Spec == Init /\ [][Next]_vars

(***************************************************************************)
(* The same program when every external call that a handler awaits         *)
(* (msg.getChat, msg.getContact, model.generateContent, client.getChatById,*)
(* client.sendMessage) eventually returns or throws: the step that resumes *)
(* the handler is then taken.  Deliveries and toggles are up to the        *)
(* environment.                                                            *)
(***************************************************************************)
Resume(m) ==
    \/ \E outcome \in CallOutcomes : SkipLookupReturn(m, outcome)
    \/ \E outcome \in CallOutcomes : GetChatReturn(m, outcome)
    \/ \E r \in Responses(MaxOffers) : OracleReturn(m, r)
    \/ \E outcome \in LookupOutcomes : LookupReturn(m, outcome)
    \/ \E outcome \in CallOutcomes : SendReturn(m, outcome)
    \/ \E outcome \in LookupOutcomes : BroadcastLookupReturn(m, outcome)
    \/ \E outcome \in CallOutcomes : BroadcastEnglishReturn(m, outcome)
    \/ \E outcome \in CallOutcomes : BroadcastTeluguReturn(m, outcome)

CallsReturn(m) == WF_vars(Resume(m))

\* one inbound message at a time with the largest answer of the oracle
InitCallsReturn == Init /\ load = [msgs |-> 1, offers |-> MaxOffers]

SpecCallsReturn == InitCallsReturn /\ [][Next]_vars /\ \A m \in Msgs : CallsReturn(m)

(***************************************************************************)
(* Several invocations of the handler at once (each 'message' event starts *)
(* its own invocation of the async callback of line 113), for messages of  *)
(* the monitored seller group.  The awaited calls of one invocation may    *)
(* never settle; those of every other invocation do.                       *)
(***************************************************************************)
SellerMsg == [from |-> "seller1@g.us", isGroup |-> "true"]

InitConcurrent == Init /\ load = [msgs |-> MaxMsgs, offers |-> 1]

NextConcurrent ==
    \/ \E status \in BOOLEAN : ToggleAutomation(status)
    \/ \E m \in Msgs : Deliver(m, SellerMsg)
    \/ \E m \in Msgs : Resume(m)

SpecOneStalls ==
    /\ InitConcurrent /\ [][NextConcurrent]_vars
    /\ \E n \in Msgs : \A m \in Msgs \ {n} : CallsReturn(m)

(***************************************************************************)
(* Extraction on its own: one invocation of the handler waits for the      *)
(* oracle (index.js:147), and the answer is any of ExtractionResponses.    *)
(***************************************************************************)
InitExtraction ==
    /\ botAutomationEnabled = TRUE
    /\ inbox = [m \in Msgs |-> IF m = 1 THEN [from |-> "seller1@g.us", isGroup |-> "true"]
                                ELSE NoMsg]
    /\ pc = [m \in Msgs |-> IF m = 1 THEN "oracle" ELSE "idle"]
    /\ processedOffers = [m \in Msgs |-> <<>>]
    /\ groupedMessages = [m \in Msgs |-> <<>>]
    /\ pos = [m \in Msgs |-> 0]
    /\ allUpdatesContent = [m \in Msgs |-> [en |-> <<>>, te |-> <<>>]]
    /\ flagSeen = [m \in Msgs |-> IF m = 1 THEN "on" ELSE "none"]
    /\ everOn = TRUE
    /\ offDuring = [m \in Msgs |-> FALSE]
    /\ resp = [m \in Msgs |-> NoResponse]
    /\ oracleCalls = [m \in Msgs |-> IF m = 1 THEN 1 ELSE 0]
    /\ sends = [m \in Msgs |-> <<>>]
    /\ faults = 0
    /\ load = [msgs |-> 1, offers |-> MaxOffers]
    /\ fmt = NoText
    /\ tel = NoTelugu

NextExtraction == \E r \in ExtractionResponses : OracleReturn(1, r)

SpecExtraction == InitExtraction /\ [][NextExtraction]_vars

(***************************************************************************)
(* Formatting on its own: applyFormattingRules is applied to a text and    *)
(* then to its own output.                                                 *)
(***************************************************************************)
InitFormat ==
    /\ botAutomationEnabled = FALSE
    /\ inbox = [m \in Msgs |-> NoMsg]
    /\ pc = [m \in Msgs |-> "idle"]
    /\ processedOffers = [m \in Msgs |-> <<>>]
    /\ groupedMessages = [m \in Msgs |-> <<>>]
    /\ pos = [m \in Msgs |-> 0]
    /\ allUpdatesContent = [m \in Msgs |-> [en |-> <<>>, te |-> <<>>]]
    /\ flagSeen = [m \in Msgs |-> "none"]
    /\ everOn = FALSE
    /\ offDuring = [m \in Msgs |-> FALSE]
    /\ resp = [m \in Msgs |-> NoResponse]
    /\ oracleCalls = [m \in Msgs |-> 0]
    /\ sends = [m \in Msgs |-> <<>>]
    /\ faults = 0
    /\ load = [msgs |-> 1, offers |-> MaxOffers]
    /\ fmt \in {[text |-> t, runs |-> 0, out |-> t, prev |-> t, unit |-> NoUnit] :
                   t \in FormatTexts(MaxPieces)}
    /\ tel = NoTelugu

\* geminiProcessor.js:159-221 applied to the text at hand
ApplyFormat ==
    /\ fmt.runs < 2
    /\ fmt' = [text |-> fmt.text, runs |-> fmt.runs + 1,
               out |-> applyFormattingRules(fmt.out), prev |-> fmt.out,
               unit |-> fmt.unit]
    /\ UNCHANGED <<botAutomationEnabled, handlerVars, historyVars, tel>>

NextFormat == ApplyFormat

SpecFormat == InitFormat /\ [][NextFormat]_vars

(***************************************************************************)
(* The corrections of the Telugu text on their own: the loop of            *)
(* geminiProcessor.js:369-401 reaches a valid candidate whose Telugu text  *)
(* is not empty (line 380).                                                *)
(***************************************************************************)
InitTelugu ==
    /\ botAutomationEnabled = FALSE
    /\ inbox = [m \in Msgs |-> NoMsg]
    /\ pc = [m \in Msgs |-> "idle"]
    /\ processedOffers = [m \in Msgs |-> <<>>]
    /\ groupedMessages = [m \in Msgs |-> <<>>]
    /\ pos = [m \in Msgs |-> 0]
    /\ allUpdatesContent = [m \in Msgs |-> [en |-> <<>>, te |-> <<>>]]
    /\ flagSeen = [m \in Msgs |-> "none"]
    /\ everOn = FALSE
    /\ offDuring = [m \in Msgs |-> FALSE]
    /\ resp = [m \in Msgs |-> NoResponse]
    /\ oracleCalls = [m \in Msgs |-> 0]
    /\ sends = [m \in Msgs |-> <<>>]
    /\ faults = 0
    /\ load = [msgs |-> 1, offers |-> MaxOffers]
    /\ fmt = NoText
    /\ tel \in {[name |-> n, te |-> t, fixed |-> t, out |-> t, done |-> FALSE] :
                   n \in TeluguNames, t \in TeluguTexts(MaxTeluguPieces) \ {<<>>}}

\* geminiProcessor.js:380-393 applied to the text at hand
CorrectTeluguText ==
    /\ ~tel.done
    /\ tel' = [name |-> tel.name, te |-> tel.te,
               fixed |-> correctTelugu(tel.name, tel.te).fixed,
               out |-> correctTelugu(tel.name, tel.te).out, done |-> TRUE]
    /\ UNCHANGED <<botAutomationEnabled, handlerVars, historyVars, fmt>>

NextTelugu == CorrectTeluguText

SpecTelugu == InitTelugu /\ [][NextTelugu]_vars

(***************************************************************************)
(* Unit conversion on its own: applyFormattingRules is applied to the text *)
(* of a quantity, or of a range of quantities, with its unit.              *)
(***************************************************************************)
InitUnits ==
    /\ botAutomationEnabled = FALSE
    /\ inbox = [m \in Msgs |-> NoMsg]
    /\ pc = [m \in Msgs |-> "idle"]
    /\ processedOffers = [m \in Msgs |-> <<>>]
    /\ groupedMessages = [m \in Msgs |-> <<>>]
    /\ pos = [m \in Msgs |-> 0]
    /\ allUpdatesContent = [m \in Msgs |-> [en |-> <<>>, te |-> <<>>]]
    /\ flagSeen = [m \in Msgs |-> "none"]
    /\ everOn = FALSE
    /\ offDuring = [m \in Msgs |-> FALSE]
    /\ resp = [m \in Msgs |-> NoResponse]
    /\ oracleCalls = [m \in Msgs |-> 0]
    /\ sends = [m \in Msgs |-> <<>>]
    /\ faults = 0
    /\ load = [msgs |-> 1, offers |-> MaxOffers]
    /\ fmt \in {[text |-> UnitText(u), runs |-> 0, out |-> UnitText(u),
                  prev |-> UnitText(u), unit |-> u] : u \in UnitCases(MaxQuantity)}
    /\ tel = NoTelugu

NextUnits == ApplyFormat

SpecUnits == InitUnits /\ [][NextUnits]_vars


(***************************************************************************)
(* Properties.                                                             *)
(***************************************************************************)
SkipStates == {"skipLookup", "skipped", "rejected"}

\* the handler took the processing path for m (line 138 on)
Processing(m) == pc[m] \notin ({"idle"} \cup SkipStates)

\* m is a message of a seller group, as lines 117-120 decide it
Eligible(m) == IsActuallyGroup(inbox[m]) /\ inbox[m].from \in SELLER_GROUP_IDS

\* the sends of a log, as a set
SendsOf(m) == {sends[m][i] : i \in 1..Len(sends[m])}

\* the pairs of the second pass for which a message is to be sent
DuePairs(g) ==
    {p \in 0..(2 * Len(g) - 1) : Dispatchable(g, p) /\ ~IsBlank(Consolidated(g, p))}

\* every send the cycle of m owes has been made and has succeeded
AllSendsMade(m) ==
    LET g == groupedMessages[m]
    IN  /\ \A p \in DuePairs(g) :
              \E s \in SendsOf(m) :
                 /\ s.kind = "category" /\ s.to = BuyerGroupId(g, p) /\ s.status = "ok"
                 /\ s.sections[1].texts = Consolidated(g, p)
        /\ \A p \in DuePairs(g) :
              \E s \in SendsOf(m) :
                 s.kind = "broadcast" /\ s.lang = PosLang(p) /\ s.status = "ok"

\* C1: processing is serialized per source channel: a later message of the
\* same source channel has made no oracle call and no send before the cycle
\* of the earlier one is Done.
C1_SerializedPerChannel ==
    \A m1, m2 \in Msgs :
        (/\ m1 < m2
         /\ Processing(m1) /\ Processing(m2)
         /\ inbox[m1].from = inbox[m2].from
         /\ (oracleCalls[m2] > 0 \/ sends[m2] # <<>>))
        => pc[m1] = "Done"

\* C2: message order is preserved into the outputs: no send of an earlier
\* message of a source channel is issued once a later message of the same
\* channel has issued a send.
C2_OutputOrderPreserved ==
    [][\A m1, m2 \in Msgs :
          (/\ m1 < m2
           /\ inbox[m1].from = inbox[m2].from
           /\ Len(sends'[m1]) > Len(sends[m1]))
          => sends[m2] = <<>>]_vars

\* C3: the flag starts OFF; a message whose handler read the flag OFF causes
\* no oracle call and no send; nothing is processed before the control
\* surface has turned the flag ON.
C3_FlagGatesProcessing ==
    /\ ~everOn => ~botAutomationEnabled
    /\ ~everOn => \A m \in Msgs : ~Processing(m) /\ oracleCalls[m] = 0 /\ sends[m] = <<>>
    /\ \A m \in Msgs :
          flagSeen[m] = "off" => ~Processing(m) /\ oracleCalls[m] = 0 /\ sends[m] = <<>>

\* a seller-group message was skipped with the flag OFF and, the flag turned
\* ON, a later one has been processed up to its sends
C3_Witness ==
    \E m1, m2 \in Msgs :
        /\ Eligible(m1) /\ flagSeen[m1] = "off" /\ pc[m1] = "skipped"
        /\ everOn /\ flagSeen[m2] = "on" /\ sends[m2] # <<>>

\* C4: the flag is read once per message, before processing: a cycle
\* admitted with the flag ON makes its oracle call and, when no call fails,
\* all its per-category sends and its broadcasts, whatever the flag does
\* meanwhile; a message rejected with the flag OFF stays unprocessed when
\* the flag turns ON.
C4_FlagReadOncePerMessage ==
    \A m \in Msgs :
        /\ (flagSeen[m] = "off" /\ botAutomationEnabled) => pc[m] \in SkipStates
        /\ (flagSeen[m] = "on" /\ Eligible(m)) => Processing(m)
        /\ (Processing(m) /\ pc[m] = "Done" /\ faults = 0) =>
              /\ oracleCalls[m] = 1
              /\ AllSendsMade(m)

\* a cycle whose flag went OFF while it waited to call the oracle is Done
\* with per-category and broadcast sends, next to a seller-group message
\* that was rejected with the flag OFF and is still skipped with the flag ON
C4_Witness ==
    \E m1, m2 \in Msgs :
        /\ Eligible(m1) /\ flagSeen[m1] = "off" /\ pc[m1] = "skipped"
        /\ botAutomationEnabled
        /\ pc[m2] = "Done" /\ offDuring[m2] /\ faults = 0
        /\ \E s \in SendsOf(m2) : s.kind = "category"
        /\ \E s \in SendsOf(m2) : s.kind = "broadcast" /\ s.lang = "te"

\* C5: only the toggle of the control surface writes the flag; every step
\* of the message handler leaves it unchanged.
C5_OnlyToggleWritesFlag ==
    [][botAutomationEnabled' # botAutomationEnabled
          => \E status \in BOOLEAN : ToggleAutomation(status)]_vars

\* a cycle has run through every pass and the flag is as the toggle set it
C5_Witness ==
    \E m \in Msgs :
        /\ pc[m] = "Done" /\ botAutomationEnabled
        /\ \E s \in SendsOf(m) : s.kind = "broadcast"


\* C6: only messages of a group channel of the configured source set are
\* processed: a message that is not from a group, or whose channel is not
\* in the set, causes no oracle call and no send, whatever the flag.
C6_OnlySellerGroupsProcessed ==
    \A m \in Msgs :
        (pc[m] # "idle" /\ ~(IsActuallyGroup(inbox[m]) /\ inbox[m].from \in SELLER_GROUP_IDS))
        => (pc[m] \in SkipStates /\ oracleCalls[m] = 0 /\ sends[m] = <<>>)

\* with the flag ON, a message of a group outside the set and a message of
\* the seller channel that is not a group message have both been skipped
C6_Witness ==
    \E m1, m2 \in Msgs :
        /\ flagSeen[m1] = "on" /\ pc[m1] = "skipped"
        /\ IsActuallyGroup(inbox[m1]) /\ inbox[m1].from \notin SELLER_GROUP_IDS
        /\ flagSeen[m2] = "on" /\ pc[m2] = "skipped"
        /\ ~IsActuallyGroup(inbox[m2]) /\ inbox[m2].from \in SELLER_GROUP_IDS

\* the failures the claim lists: the oracle threw, its response has no
\* text, every candidate of the strict parse fails validation, or the
\* strict parse failed and the lenient scan kept no object
ListedExtractionFailure(r) ==
    \/ r.kind \in {"throw", "notext"}
    \/ /\ r.kind = "text" /\ r.parse = "array"
       /\ \A i \in 1..Len(r.items) : Malformed(r.items[i])
    \/ /\ r.kind = "text" /\ r.parse = "failed"
       /\ \A i \in 1..Len(r.items) : ~LooksLikeOffer(r.items[i])

\* C7: an extraction failure ends the cycle silently: once the oracle call
\* has failed in one of the listed ways the cycle is Done without any send,
\* and the oracle has been called once.
C7_ExtractionFailureSilent ==
    \A m \in Msgs :
        (resp[m].kind # "none" /\ ListedExtractionFailure(resp[m]))
        => (pc[m] = "Done" /\ sends[m] = <<>> /\ oracleCalls[m] = 1)

\* a finished message whose oracle answer held candidates and validation
\* (or the lenient filter) kept none of them
C7_Witness ==
    \E m \in Msgs :
        /\ pc[m] = "Done" /\ resp[m].kind = "text" /\ Len(resp[m].items) > 0
        /\ ListedExtractionFailure(resp[m])

\* the offers of m whose category has no RoutingTable entry, and the others
UnmappedOffers(m) ==
    {i \in 1..Len(processedOffers[m]) :
        processedOffers[m][i].category \notin DOMAIN BUYER_GROUP_MAPPING}

MappedOffers(m) == (1..Len(processedOffers[m])) \ UnmappedOffers(m)

\* the non-empty texts, in one language, of the offers of one category
TextsOfCategory(offers, category, lang) ==
    LET sel == SelectSeq(offers, LAMBDA o : o.category = category /\ Truthy(o[lang]))
    IN  [k \in 1..Len(sel) |-> sel[k][lang]]

\* C8: an offer whose category has no RoutingTable entry is dropped: no
\* per-category and no broadcast message carries a text of it (each message
\* and each section of a broadcast is made of the texts of the offers of one
\* mapped category, and of nothing else), the cycle ends normally, and the
\* offers of the same message with a mapped category are sent to the
\* channels mapped for them.
C8_UnmappedOfferDropped ==
    \A m \in Msgs :
        /\ \A s \in SendsOf(m) :
              \A j \in 1..Len(s.sections) :
                 \E category \in DOMAIN BUYER_GROUP_MAPPING :
                    /\ s.sections[j].texts
                          = TextsOfCategory(processedOffers[m], category, s.lang)
                    /\ s.kind = "category" =>
                          /\ s.lang \in DOMAIN BUYER_GROUP_MAPPING[category]
                          /\ s.to = BUYER_GROUP_MAPPING[category][s.lang]
                    /\ s.kind = "broadcast" => s.sections[j].label = category
        /\ (pc[m] = "Done" /\ faults = 0 /\ UnmappedOffers(m) # {}) =>
              \A i \in MappedOffers(m) :
                 LET offer == processedOffers[m][i]
                 IN  \A lang \in DOMAIN BUYER_GROUP_MAPPING[offer.category] :
                        (Truthy(offer[lang]) /\ Trim(offer[lang]) # "") =>
                           \E s \in SendsOf(m) :
                              /\ s.kind = "category" /\ s.status = "ok"
                              /\ s.to = BUYER_GROUP_MAPPING[offer.category][lang]
                              /\ \E k \in 1..Len(s.sections[1].texts) :
                                    s.sections[1].texts[k] = offer[lang]

\* a cycle with an unmapped offer and a mapped one is Done, and the mapped
\* one has been sent and broadcast
C8_Witness ==
    \E m \in Msgs :
        /\ pc[m] = "Done" /\ faults = 0
        /\ UnmappedOffers(m) # {} /\ MappedOffers(m) # {}
        /\ \E s \in SendsOf(m) : s.kind = "category"
        /\ \E s \in SendsOf(m) : s.kind = "broadcast"

\* the labels of the sections of a message, in order
Labels(s) == [j \in 1..Len(s.sections) |-> s.sections[j].label]

\* C9: a message yielding one PULSES and one SPICES offer (texts in both
\* languages, every call succeeding) gives one consolidated send per
\* category to the channel mapped for it and one broadcast per language,
\* each broadcast holding both category sections in first-seen order.
C9_TwoCategoryRouting ==
    \A m \in Msgs :
        LET offers == processedOffers[m]
        IN  (/\ pc[m] = "Done" /\ faults = 0
             /\ Len(offers) = 2
             /\ {offers[1].category, offers[2].category} = {"PULSES", "SPICES"}
             /\ \A i \in 1..2 : Truthy(offers[i].en) /\ Truthy(offers[i].te))
            =>
            /\ \A i \in 1..2 :
                  \E s \in SendsOf(m) :
                     /\ s.kind = "category" /\ s.status = "ok"
                     /\ s.to = BUYER_GROUP_MAPPING[offers[i].category]["en"]
                     /\ s.sections[1].texts = <<offers[i].en>>
            /\ \A lang \in {"en", "te"} :
                  /\ Cardinality({i \in 1..Len(sends[m]) :
                                     sends[m][i].kind = "broadcast" /\ sends[m][i].lang = lang}) = 1
                  /\ \A s \in SendsOf(m) :
                        (s.kind = "broadcast" /\ s.lang = lang) =>
                           Labels(s) = <<offers[1].category, offers[2].category>>

\* C10: the broadcast channel receives the union of the per-category texts
\* of the message: for every language and every category with a non-blank
\* consolidated text in that language, the broadcast of that language holds
\* the category's section, mapped channel or not.
C10_BroadcastIsUnion ==
    \A m \in Msgs :
        (pc[m] = "Done" /\ faults = 0) =>
           \A i \in 1..Len(groupedMessages[m]) :
              \A lang \in {"en", "te"} :
                 ~IsBlank(groupedMessages[m][i][lang]) =>
                    \E s \in SendsOf(m) :
                       /\ s.kind = "broadcast" /\ s.lang = lang
                       /\ \E j \in 1..Len(s.sections) :
                             /\ s.sections[j].label = groupedMessages[m][i].category
                             /\ s.sections[j].texts = groupedMessages[m][i][lang]

\* the send attempts of m that went to one destination in one language
AttemptsTo(m, kind, to, lang) ==
    {i \in 1..Len(sends[m]) :
        sends[m][i].kind = kind /\ sends[m][i].to = to /\ sends[m][i].lang = lang}

\* C11: a dispatch failure is local to one send: when one send of a cycle
\* throws (and every other call succeeds), every pair with a message due is
\* still attempted, and so is the broadcast of every language for which a
\* per-category send has succeeded.
C11_DispatchFailureLocal ==
    \A m \in Msgs :
        (/\ pc[m] = "Done" /\ faults = 1
         /\ \E s \in SendsOf(m) : s.status = "failed")
        =>
        /\ \A p \in DuePairs(groupedMessages[m]) :
              AttemptsTo(m, "category", BuyerGroupId(groupedMessages[m], p), PosLang(p)) # {}
        /\ \A lang \in {"en", "te"} :
              (\E s \in SendsOf(m) : s.kind = "category" /\ s.lang = lang /\ s.status = "ok")
              => AttemptsTo(m, "broadcast", ALL_UPDATES_GROUP_ID, lang) # {}

\* C12: nothing is retried within a cycle: the oracle is called at most once
\* for a message, every per-category destination gets at most one send
\* attempt and the broadcast channel at most one per language, whether the
\* attempts succeed or fail.
C12_NothingRetried ==
    \A m \in Msgs :
        /\ oracleCalls[m] <= 1
        /\ \A i \in 1..Len(sends[m]) :
              Cardinality(AttemptsTo(m, sends[m][i].kind, sends[m][i].to, sends[m][i].lang)) = 1

\* a cycle is Done after a per-category send of it has thrown, and another
\* send of the same cycle followed
C12_Witness ==
    \E m \in Msgs :
        /\ pc[m] = "Done" /\ oracleCalls[m] = 1
        /\ \E i \in 1..Len(sends[m]) :
              /\ sends[m][i].kind = "category" /\ sends[m][i].status = "failed"
              /\ i < Len(sends[m])

\* C18: no failure crashes the process: no invocation of the handler ends
\* with an exception that nothing caught.
C18_NoUncaughtException ==
    \A m \in Msgs : pc[m] # "rejected"

\* a candidate with every required field: extractedName, standardizedName,
\* category, and details that are not empty
ValidCandidate(c) ==
    /\ Truthy(c.extractedName)
    /\ Truthy(c.standardizedName)
    /\ Truthy(c.category)
    /\ c.hasDetails
    /\ (c.details.en # Undefined \/ c.details.te # Undefined)

\* the keys of the offers extraction returned for m
OfferKeys(m) == {processedOffers[m][i].key : i \in 1..Len(processedOffers[m])}

\* C13: a validation drop affects only the defective candidate: of a
\* response that parsed as an array, every candidate with all required
\* fields is among the returned offers, whatever its siblings lack.
C13_ValidationDropLocal ==
    \A m \in Msgs :
        (resp[m].kind = "text" /\ resp[m].parse = "array") =>
           \A i \in 1..Len(resp[m].items) :
              ValidCandidate(resp[m].items[i])
              => ToUpperCase(resp[m].items[i].extractedName) \in OfferKeys(m)

\* the Telugu texts of the offers that the lenient branch makes: the
\* placeholder of line 350 after the corrections of the normalization loop
PlaceholderTexts ==
    {NormalizedOffer(LenientItem(c)).te :
        c \in {x \in ExtractionCandidates : LooksLikeOffer(x) /\ ~LenientItemThrows(x)}}

\* the offer came out of the lenient branch
MadeLeniently(offer) == offer.te \in PlaceholderTexts

\* C14 as stated: the strict parse succeeds only for a fenced block whose
\* content parses as an array; a text without a fenced block, or whose
\* fenced content is no array, goes to the lenient scan, so every offer it
\* yields is one the lenient branch made.
C14_StrictNeedsFencedArray ==
    \A m \in Msgs :
        (resp[m].kind = "text" /\ ~(resp[m].fenced /\ resp[m].parse = "array")) =>
           \A i \in 1..Len(processedOffers[m]) : MadeLeniently(processedOffers[m][i])

\* C14 as amended: the strict parse succeeds when the fenced content, or
\* the whole text when there is no fenced block, parses as an array, and
\* then no offer comes from the lenient branch; otherwise the text goes to
\* the lenient scan and every offer comes from the lenient branch.
C14_StrictAcceptsParsedArray ==
    \A m \in Msgs :
        resp[m].kind = "text" =>
           \A i \in 1..Len(processedOffers[m]) :
              MadeLeniently(processedOffers[m][i]) <=> (resp[m].parse = "failed")

\* a text without a fenced block that parses as an array has yielded offers
\* with the oracle's own Telugu text
C14_Witness ==
    \E m \in Msgs :
        /\ resp[m].kind = "text" /\ ~resp[m].fenced /\ resp[m].parse = "array"
        /\ \E i \in 1..Len(processedOffers[m]) :
              /\ Truthy(processedOffers[m][i].te)
              /\ ~MadeLeniently(processedOffers[m][i])

\* C15: the lenient fallback yields partial results: when the strict parse
\* fails and the scan finds objects with all four required fields, each of
\* them is among the returned offers, also when one lacks the text of a
\* language (English included).
C15_LenientYieldsPartialResults ==
    \A m \in Msgs :
        (resp[m].kind = "text" /\ resp[m].parse = "failed") =>
           \A i \in 1..Len(resp[m].items) :
              LooksLikeOffer(resp[m].items[i])
              => ToUpperCase(resp[m].items[i].extractedName) \in OfferKeys(m)

\* the last candidate of the response whose upper-cased name is the key
LastWithKey(items, key) ==
    CHOOSE i \in 1..Len(items) :
        /\ ToUpperCase(items[i].extractedName) = key
        /\ \A j \in 1..Len(items) : ToUpperCase(items[j].extractedName) = key => j <= i

C17_ReturnedOffersRoutable ==
    \A m \in Msgs :
        \A i \in 1..Len(processedOffers[m]) :
           /\ processedOffers[m][i].category \in DOMAIN BUYER_GROUP_MAPPING
           /\ (Truthy(processedOffers[m][i].en) \/ Truthy(processedOffers[m][i].te))

\* C17 as amended: extraction may return offers with an unmapped category
\* or without a non-empty text; the first pass of the handler leaves them
\* out: every bucket it fills belongs to a key of the RoutingTable and holds
\* exactly the non-empty texts of the offers of that category.
C17_GroupedOffersRoutable ==
    \A m \in Msgs :
        LET g == groupedMessages[m]
        IN  /\ \A i \in 1..Len(g) :
                  /\ g[i].category \in DOMAIN BUYER_GROUP_MAPPING
                  /\ \A lang \in {"en", "te"} :
                        /\ g[i][lang] = TextsOfCategory(processedOffers[m], g[i].category, lang)
                        /\ \A k \in 1..Len(g[i][lang]) : Truthy(g[i][lang][k])
            /\ \A i \in 1..Len(processedOffers[m]) :
                  processedOffers[m][i].category \in DOMAIN BUYER_GROUP_MAPPING
                  => \E j \in 1..Len(g) : g[j].category = processedOffers[m][i].category

\* extraction has returned an offer with an unmapped category and an offer
\* without any non-empty text, and the first pass has run
C17_Witness ==
    \E m \in Msgs :
        /\ \E i \in 1..Len(processedOffers[m]) :
              processedOffers[m][i].category \notin DOMAIN BUYER_GROUP_MAPPING
        /\ \E i \in 1..Len(processedOffers[m]) :
              /\ ~Truthy(processedOffers[m][i].en) /\ ~Truthy(processedOffers[m][i].te)
              /\ \E j \in 1..Len(groupedMessages[m]) :
                    /\ groupedMessages[m][j].category = processedOffers[m][i].category
                    /\ groupedMessages[m][j].en = <<>>

\* C19: the lookup of the lexicon is an exact match on the upper-cased
\* token: the alias TUR in any letter case gives TOOR DAL of PULSES, and a
\* token that is no alias (a prefix of one, the first word of a two-word
\* one) is not found, which the lenient branch records as UNKNOWN under the
\* upper-cased extracted name.
C19_LexiconExactMatch ==
    \A m \in Msgs :
        (resp[m].kind = "text" /\ resp[m].parse = "failed") =>
           \A i \in 1..Len(processedOffers[m]) :
              LET o == processedOffers[m][i]
              IN  /\ o.extractedName \in {"Tur Sudan", "TUR SUDAN", "tur"}
                        => (o.standardizedName = "TOOR DAL" /\ o.category = "PULSES")
                  /\ o.extractedName \in {"Tu", "Kali Mirch", "Rice Sona"}
                        => (o.standardizedName = o.key /\ o.category = "UNKNOWN")

\* the lenient branch has resolved the alias in lower case and has not
\* found the first word of a two-word alias
C19_Witness ==
    \E m \in Msgs :
        /\ resp[m].parse = "failed"
        /\ \E i, j \in 1..Len(processedOffers[m]) :
              /\ processedOffers[m][i].extractedName = "tur"
              /\ processedOffers[m][i].standardizedName = "TOOR DAL"
              /\ processedOffers[m][j].extractedName = "Kali Mirch"
              /\ processedOffers[m][j].category = "UNKNOWN"

\* C20: formatting is idempotent: formatting the output of the formatting
\* of a text gives that output again.
C20_FormattingIdempotent ==
    fmt.runs = 2 => fmt.out = fmt.prev

\* the converted quantities of a unit case, as lines 171-190 compute them
Converted(u) ==
    IF u.word = KATTA
    THEN [a |-> (u.a + 1) \div 2, b |-> u.b \div 2]
    ELSE [a |-> 2 * u.a, b |-> 2 * u.b]

\* "x BAG" or "x-y BAG" for the converted quantities
ConvertedText(u) ==
    NumberToText(Converted(u).a)
    \o (IF u.range THEN <<"-">> \o NumberToText(Converted(u).b) ELSE <<>>)
    \o BAG

\* C21 as stated: for all quantities a and b, "a-b KATTA" becomes
\* "ceil(a/2)-floor(b/2) BAG", "a KATTA" becomes "ceil(a/2) BAG",
\* "a-b QUINTAL(S)" becomes "2a-2b BAG" and "a QUINTAL(S)" becomes "2a BAG".
C21_UnitConversion ==
    (fmt.runs = 1 /\ fmt.unit # NoUnit) => fmt.out = ConvertedText(fmt.unit)

\* a converted quantity of ten digits, which line 193 takes for a phone number
PhoneLike(n) == Len(NumberToText(n)) >= 10

\* C21 as amended: the conversions give these texts for all quantities whose
\* converted values have fewer than ten digits.
C21_UnitConversionBelowTenDigits ==
    (/\ fmt.runs = 1 /\ fmt.unit # NoUnit
     /\ ~PhoneLike(Converted(fmt.unit).a)
     /\ ~PhoneLike(Converted(fmt.unit).b))
    => fmt.out = ConvertedText(fmt.unit)

\* a range of two odd numbers of KATTA has been converted, the lower bound
\* rounded up and the upper bound rounded down
C21_Witness ==
    /\ fmt.runs = 1 /\ fmt.unit.range /\ fmt.unit.word = KATTA
    /\ fmt.unit.a % 2 = 1 /\ fmt.unit.b % 2 = 1 /\ fmt.unit.a < fmt.unit.b
    /\ fmt.out = ConvertedText(fmt.unit)

\* the line holds the marker NA as a word of its own
HasWholeWordMarker(line) ==
    \E i \in 1..Len(line) :
        /\ Matches(line, i, <<"N", "A">>)
        /\ WordBoundary(line, i)
        /\ WordBoundary(line, i + 2)

\* a text of one line that no rule after the first one changes, but for the
\* trimming: no digit, no plus sign, no marketing phrase, no market name
PlainLine(text) ==
    /\ \A i \in 1..Len(text) : text[i] \in LetterChars \cup {" "}
    /\ \A i \in 1..Len(text) : ~Matches(text, i, CALL) /\ ~Matches(text, i, MARKET)

\* C22: noise-line removal is whole-word: a line is dropped by the first
\* rule if and only if it holds a marker as a whole word; a line that holds
\* the letters of a marker only inside a longer word is kept (and comes out
\* trimmed).
C22_NoiseRemovalWholeWord ==
    (fmt.runs = 1 /\ fmt.unit = NoUnit /\ PlainLine(fmt.text)) =>
        fmt.out = IF HasWholeWordMarker(fmt.text) THEN <<>> ELSE TrimText(fmt.text)

\* the places of a text where a word stands
Occurrences(s, w) == {i \in 1..Len(s) : Matches(s, i, w)}

\* C23 as stated: after normalization the Telugu text of an offer holds no
\* occurrence of the mistranslation of "arrival".
C23_NoArrivalTokenLeft ==
    tel.done => Occurrences(tel.out, ARRIVAL_TOKEN) = {}

\* C23 as amended: the correction of "arrival" replaces every occurrence of
\* the token, followed by punctuation or not, by the designated term, and
\* the text holds no token after it; the text of the returned offer holds
\* none either unless the crop name correction that follows has put the
\* designated crop name right after the characters ra aa.
C23_ArrivalTokensReplaced ==
    tel.done =>
        /\ Occurrences(tel.fixed, ARRIVAL_TOKEN) = {}
        /\ Cardinality(Occurrences(tel.fixed, ARRIVAL_TERM))
              = Cardinality(Occurrences(tel.te, ARRIVAL_TOKEN))
        /\ \A i \in Occurrences(tel.out, ARRIVAL_TOKEN) :
              /\ tel.name = "TOOR DAL"
              /\ Matches(tel.out, i + 2, KANDI_PAPPU)

\* a text with the token twice, once before a colon and once before a
\* digit, has been corrected
C23_Witness ==
    /\ tel.done
    /\ \E i, j \in Occurrences(tel.te, ARRIVAL_TOKEN) :
          /\ i < j
          /\ Matches(tel.te, i + Len(ARRIVAL_TOKEN), <<":">>)
          /\ Matches(tel.te, j + Len(ARRIVAL_TOKEN), <<"5">>)
    /\ Cardinality(Occurrences(tel.out, ARRIVAL_TERM)) = 2

\* the states of a cycle, by the points where the handler is suspended:
\* Collecting (the oracle call), Dispatching (the second pass),
\* Broadcasting (the third pass), Done; Grouping (the first pass) runs
\* between the return of the oracle and the first lookup without a
\* suspension
Dispatching == {"lookup", "send"}

Broadcasting == {"bcastLookup", "bcastSendEn", "bcastSendTe"}

Rank(p) ==
    CASE p \in {"getChat", "oracle"} -> 1
      [] p \in Dispatching          -> 3
      [] p \in Broadcasting         -> 4
      [] p = "Done"                 -> 5
      [] OTHER                      -> 0

\* the first pass is complete for m: every non-empty text of every offer
\* with a mapped category is in the bucket of its category and language
AllBucketed(m) ==
    \A i \in MappedOffers(m) :
        \E j \in 1..Len(groupedMessages[m]) :
            /\ groupedMessages[m][j].category = processedOffers[m][i].category
            /\ \A lang \in {"en", "te"} :
                  groupedMessages[m][j][lang]
                     = TextsOfCategory(processedOffers[m], processedOffers[m][i].category, lang)

\* the second pass is complete for m: every pair has been visited and no
\* per-category send is still under way
AllDispatched(m) ==
    /\ pos[m] = 2 * Len(groupedMessages[m])
    /\ \A s \in SendsOf(m) : s.kind = "category" => s.status # "pending"

\* C24: a cycle moves through Collecting, Grouping, Dispatching,
\* Broadcasting, Done in that order without going back: every offer is
\* bucketed before the first per-category send is attempted, every
\* per-category send attempt is complete before the first broadcast
\* attempt, and no per-category send is attempted after a broadcast attempt.
C24_PassesInOrder ==
    /\ [](\A m \in Msgs :
            /\ (pc[m] \in Dispatching \cup Broadcasting \/ sends[m] # <<>>)
                  => AllBucketed(m)
            /\ (pc[m] \in Broadcasting \/ \E s \in SendsOf(m) : s.kind = "broadcast")
                  => AllDispatched(m)
            /\ \A i, j \in 1..Len(sends[m]) :
                  (i < j /\ sends[m][j].kind = "category")
                  => (sends[m][i].kind = "category" /\ sends[m][i].status # "pending"))
    /\ [][\A m \in Msgs :
            /\ Rank(pc'[m]) >= Rank(pc[m])
            /\ (pc[m] \in Broadcasting \cup {"Done"}) =>
                  \A i \in (Len(sends[m]) + 1)..Len(sends'[m]) :
                      sends'[m][i].kind = "broadcast"]_vars

\* a cycle is Done after per-category sends for two categories, one of them
\* failed, and the broadcasts of both languages
C24_Witness ==
    \E m \in Msgs :
        /\ pc[m] = "Done" /\ Len(groupedMessages[m]) = 2
        /\ \E s \in SendsOf(m) : s.kind = "category" /\ s.status = "failed"
        /\ \E s \in SendsOf(m) : s.kind = "broadcast" /\ s.lang = "en"
        /\ \E s \in SendsOf(m) : s.kind = "broadcast" /\ s.lang = "te"

\* the categories of a sequence of offers that the RoutingTable maps, each
\* once, in the order in which they are first seen
RECURSIVE FirstSeen(_, _, _)
FirstSeen(cands, i, acc) ==
    IF i > Len(cands) THEN acc
    ELSE LET category == ToUpperCase(cands[i].category)
         IN  IF /\ category \in DOMAIN BUYER_GROUP_MAPPING
                /\ \A k \in 1..Len(acc) : acc[k] # category
             THEN FirstSeen(cands, i + 1, Append(acc, category))
             ELSE FirstSeen(cands, i + 1, acc)

\* the non-empty English texts of the candidates of one category, in order
CandidateTexts(cands, category) ==
    LET sel == SelectSeq(cands, LAMBDA c : ToUpperCase(c.category) = category
                                           /\ Truthy(c.details.en))
    IN  [k \in 1..Len(sel) |-> sel[k].details.en]

\* C25: grouping preserves order: for valid candidates with distinct names,
\* names that look like integers included, the buckets (which the second
\* and third pass visit in order) stand in the order in which the categories
\* were first seen among the offers extraction yielded, and the texts of a
\* bucket in the order in which the offers were yielded.
C25_GroupingPreservesOrder ==
    \A m \in Msgs :
        LET items == resp[m].items
            g     == groupedMessages[m]
        IN  (/\ resp[m].kind = "text" /\ resp[m].parse = "array"
             /\ \A i \in 1..Len(items) : ValidCandidate(items[i])
             /\ \A i, j \in 1..Len(items) :
                   i # j => ToUpperCase(items[i].extractedName)
                              # ToUpperCase(items[j].extractedName))
            =>
            /\ [k \in 1..Len(g) |-> g[k].category] = FirstSeen(items, 1, <<>>)
            /\ \A k \in 1..Len(g) : g[k].en = CandidateTexts(items, g[k].category)

\* the joined text of a bucket is empty or whitespace only: the bucket has
\* no text, or one text of whitespace (the separator between two texts is
\* made of dashes)
EmptyBody(texts) == \A k \in 1..Len(texts) : Len(texts) = 1 /\ Trim(texts[k]) = ""

\* the (bucket, language) pairs of m that the RoutingTable maps
MappedPairs(m) ==
    {x \in (1..Len(groupedMessages[m])) \X {"en", "te"} :
        /\ groupedMessages[m][x[1]].category \in DOMAIN BUYER_GROUP_MAPPING
        /\ x[2] \in DOMAIN BUYER_GROUP_MAPPING[groupedMessages[m][x[1]].category]}

\* the per-category sends of m for one pair
SendsFor(m, x) ==
    {i \in 1..Len(sends[m]) :
        /\ sends[m][i].kind = "category" /\ sends[m][i].lang = x[2]
        /\ sends[m][i].to = BUYER_GROUP_MAPPING[groupedMessages[m][x[1]].category][x[2]]
        /\ sends[m][i].sections[1].texts = groupedMessages[m][x[1]][x[2]]}

\* C26: in Dispatching a send to the mapped channel is attempted, for each
\* category present and each language the RoutingTable maps for it, exactly
\* when the joined text of the bucket is non-empty after trimming (and the
\* lookup of the channel gave a group); no message with an empty or
\* whitespace-only body is ever sent, and no send is attempted for a pair
\* the RoutingTable does not map.
C26_SendExactlyNonEmpty ==
    \A m \in Msgs :
        /\ \A i \in 1..Len(sends[m]) :
              /\ sends[m][i].sections # <<>>
              /\ \A j \in 1..Len(sends[m][i].sections) :
                    ~EmptyBody(sends[m][i].sections[j].texts)
              /\ sends[m][i].kind = "category" =>
                    \E x \in MappedPairs(m) : i \in SendsFor(m, x)
        /\ \A x \in MappedPairs(m) :
              EmptyBody(groupedMessages[m][x[1]][x[2]]) => SendsFor(m, x) = {}
        /\ (pc[m] \in Broadcasting \cup {"Done"} /\ faults = 0) =>
              \A x \in MappedPairs(m) :
                 ~EmptyBody(groupedMessages[m][x[1]][x[2]]) => SendsFor(m, x) # {}

\* a cycle is Done without any failure: the bucket of one category held a
\* whitespace-only text and got no send, the English text of another
\* category was sent, and its Telugu text, for which the RoutingTable has no
\* channel, was not
C26_Witness ==
    \E m \in Msgs :
        /\ pc[m] = "Done" /\ faults = 0
        /\ \E x \in MappedPairs(m) :
              /\ groupedMessages[m][x[1]][x[2]] = <<" ">>
              /\ SendsFor(m, x) = {}
        /\ \E k \in 1..Len(groupedMessages[m]) :
              /\ groupedMessages[m][k].te # <<>>
              /\ <<k, "te">> \notin MappedPairs(m)
              /\ SendsFor(m, <<k, "en">>) # {}
              /\ \A i \in 1..Len(sends[m]) : sends[m][i].kind = "category" => sends[m][i].lang = "en"

\* the per-category sends of m in one language that have succeeded, in order
SucceededSends(m, lang) ==
    SelectSeq(sends[m], LAMBDA s : s.kind = "category" /\ s.lang = lang /\ s.status = "ok")

BroadcastsOf(m, lang) == AttemptsTo(m, "broadcast", ALL_UPDATES_GROUP_ID, lang)

\* the lookup of the broadcast channel gave a group for m: a broadcast was
\* attempted, or the cycle is over and no call of the behaviour failed
BroadcastChannelValid(m) ==
    \/ \E s \in SendsOf(m) : s.kind = "broadcast"
    \/ (pc[m] = "Done" /\ faults = 0)

\* C28: in Broadcasting exactly one broadcast message, made of the
\* accumulator of the language, is sent for each language when the broadcast
\* channel is configured and valid and the accumulator is not empty; for an
\* empty accumulator no broadcast message is sent.
C28_OneBroadcastPerLanguage ==
    \A m \in Msgs :
        \A lang \in {"en", "te"} :
            /\ \A i \in BroadcastsOf(m, lang) :
                  sends[m][i].sections = allUpdatesContent[m][lang]
            /\ allUpdatesContent[m][lang] = <<>> => BroadcastsOf(m, lang) = {}
            /\ (/\ pc[m] = "Done"
                /\ Truthy(ALL_UPDATES_GROUP_ID)
                /\ BroadcastChannelValid(m)
                /\ allUpdatesContent[m][lang] # <<>>)
               => Cardinality(BroadcastsOf(m, lang)) = 1

\* C29: every admitted cycle eventually reaches Done when every external
\* call eventually returns or throws, for every combination of successes
\* and failures; at Done the second pass has visited every pair and no send
\* of the cycle is still under way.
C29_CycleReachesDone ==
    /\ \A m \in Msgs : (pc[m] = "getChat") ~> (pc[m] = "Done")
    /\ [](\A m \in Msgs :
            pc[m] = "Done" =>
               /\ pos[m] = 2 * Len(groupedMessages[m])
               /\ \A s \in SendsOf(m) : s.status # "pending")

\* a cycle is Done after a failed per-category send and a succeeded one,
\* and after its broadcasts
C29_Witness ==
    \E m \in Msgs :
        /\ pc[m] = "Done" /\ faults > 0
        /\ \E s \in SendsOf(m) : s.kind = "category" /\ s.status = "failed"
        /\ \E s \in SendsOf(m) : s.kind = "category" /\ s.status = "ok"
        /\ \E s \in SendsOf(m) : s.kind = "broadcast" /\ s.status = "ok"

\* every mapped pair of m with a non-empty text has its send, when no call failed
SendsIssued(m) ==
    faults = 0 =>
       \A x \in MappedPairs(m) :
          ~EmptyBody(groupedMessages[m][x[1]][x[2]]) => SendsFor(m, x) # {}

StepOf(m) == <<pc'[m], pos'[m]>> # <<pc[m], pos[m]>>

\* the step resumes m after client.getChatById, which returned a group
LookupGaveGroup(m) ==
    StepOf(m) /\ pc[m] \in {"lookup", "bcastLookup"} /\ faults' = faults

\* the step resumes m after client.getChatById, which threw or returned
\* nothing or a chat that is not a group
LookupGaveNoGroup(m) ==
    StepOf(m) /\ pc[m] \in {"lookup", "bcastLookup"} /\ faults' > faults

\* the step issues a send of m
IssuesSend(m) == Len(sends'[m]) > Len(sends[m])

\* the destination of the send that m issued last
LastTo(log) == log[Len(log)].to

\* C31: a send to a destination, per-category or broadcast, is attempted
\* only after the lookup of that destination returned a group in the same
\* cycle (the Telugu broadcast follows the English one, which followed the
\* lookup of the broadcast channel); when the lookup gives no group, no
\* send to that identifier is attempted, and a cycle waiting on a broadcast
\* send has issued it to the broadcast channel.
C31_SendOnlyAfterLookup ==
    /\ [][\A m \in Msgs :
            /\ IssuesSend(m) =>
                  \/ /\ LookupGaveGroup(m)
                     /\ LastTo(sends'[m]) =
                           IF pc[m] = "bcastLookup" THEN ALL_UPDATES_GROUP_ID
                           ELSE BuyerGroupId(groupedMessages[m], pos[m])
                  \/ /\ pc[m] = "bcastSendEn" /\ faults' = faults
                     /\ LastTo(sends'[m]) = ALL_UPDATES_GROUP_ID
            /\ LookupGaveNoGroup(m) =>
                  /\ sends'[m] = sends[m]
                  /\ pc[m] = "bcastLookup" => pc'[m] = "Done"]_vars
    /\ [](\A m \in Msgs :
            pc[m] \in {"bcastSendEn", "bcastSendTe"} =>
               /\ sends[m] # <<>>
               /\ sends[m][Len(sends[m])].kind = "broadcast"
               /\ LastTo(sends[m]) = ALL_UPDATES_GROUP_ID)

\* a cycle is Done: the lookup of one mapped pair with a text gave no group
\* and the pair has no send, another pair was sent and the broadcast too
C31_Witness ==
    \E m \in Msgs :
        /\ pc[m] = "Done" /\ faults > 0
        /\ \A i \in 1..Len(sends[m]) : sends[m][i].status = "ok"
        /\ \E x \in MappedPairs(m) :
              /\ ~EmptyBody(groupedMessages[m][x[1]][x[2]])
              /\ SendsFor(m, x) = {}
        /\ \E x \in MappedPairs(m) : SendsFor(m, x) # {}
        /\ \E s \in SendsOf(m) : s.kind = "broadcast"

\* the word at i stands on its own: the start of the text, a space or a
\* colon before it, and the end of the text, a space or a colon after it
Delimited(s, i, w) ==
    /\ Matches(s, i, w)
    /\ (i = 1 \/ s[i - 1] \in {" ", ":"})
    /\ (i + Len(w) > Len(s) \/ s[i + Len(w)] \in {" ", ":"})

\* C32: for an offer whose StandardizedCrop is in the correction table,
\* the returned Telugu text holds no listed known-wrong rendering of the
\* crop name standing on its own, Latin transliteration or Telugu-script
\* spelling alike (each was replaced by the designated rendering); for an
\* offer whose StandardizedCrop is absent from the table the crop-name
\* step changes nothing.
C32_CropNameCorrected ==
    tel.done =>
        IF tel.name = "TOOR DAL"
        THEN \A k \in 1..Len(ToorDalRenderings), i \in 1..Len(tel.out) :
                ~Delimited(tel.out, i, ToorDalRenderings[k])
        ELSE tel.out = tel.fixed

\* the candidates the parse produced: the elements of the array of the
\* strict parse, or the offers the lenient branch made of the scanned objects
PostParse(r) ==
    IF StrictParseOk(r) THEN r.items
    ELSE [i \in 1..Len(ParseLeniently(r)) |-> LenientItem(ParseLeniently(r)[i])]

\* the candidate the entry with this key was stored for: the last one of
\* that upper-cased name that the validation let through
StoredFor(cands, key) ==
    {i \in 1..Len(cands) :
        /\ ~Malformed(cands[i])
        /\ ToUpperCase(cands[i].extractedName) = key
        /\ \A j \in (i + 1)..Len(cands) :
              Malformed(cands[j]) \/ ToUpperCase(cands[j].extractedName) # key}

\* C33: corrections touch only the language they are defined for: each
\* returned offer has the English text of its candidate exactly as the
\* parse produced it, and the extractedName of its candidate.
C33_OnlyTeluguTouched ==
    \A m \in Msgs :
        resp[m].kind = "text" =>
           \A k \in 1..Len(processedOffers[m]) :
              \E i \in StoredFor(PostParse(resp[m]), processedOffers[m][k].key) :
                 /\ processedOffers[m][k].en = PostParse(resp[m])[i].details.en
                 /\ processedOffers[m][k].extractedName = PostParse(resp[m])[i].extractedName

\* C34: in the lexicon built at startup every alias maps to exactly one
\* StandardizedCrop and every StandardizedCrop belongs to exactly one
\* Category: no alias stands under two entries of the static table, no
\* standardized name has two entries, so no assignment of the construction
\* loop overwrote an earlier one, and a lookup of the lenient branch gives
\* the name and the category of the one entry that lists the alias.
C34_LexiconSingleValued ==
    /\ \A i, j \in 1..Len(CROP_CATEGORIES_AND_STANDARDIZATION) :
          \/ i = j
          \/ /\ CROP_CATEGORIES_AND_STANDARDIZATION[i].aliases
                   \cap CROP_CATEGORIES_AND_STANDARDIZATION[j].aliases = {}
             /\ CROP_CATEGORIES_AND_STANDARDIZATION[i].standardizedName
                   # CROP_CATEGORIES_AND_STANDARDIZATION[j].standardizedName
    /\ \A i \in 1..Len(CROP_CATEGORIES_AND_STANDARDIZATION) :
          \A a \in CROP_CATEGORIES_AND_STANDARDIZATION[i].aliases :
             /\ ToUpperCase(a) = a
             /\ FLATTENED_CROP_MAPPING(a).standardizedName
                   = CROP_CATEGORIES_AND_STANDARDIZATION[i].standardizedName
             /\ FLATTENED_CROP_MAPPING(a).category
                   = CROP_CATEGORIES_AND_STANDARDIZATION[i].category
    /\ \A m \in Msgs :
          (resp[m].kind = "text" /\ ~StrictParseOk(resp[m])) =>
             \A k \in 1..Len(processedOffers[m]) :
                \A i \in AliasEntries(ToUpperCase(FirstWord(processedOffers[m][k].extractedName))) :
                   /\ processedOffers[m][k].standardizedName
                         = CROP_CATEGORIES_AND_STANDARDIZATION[i].standardizedName
                   /\ processedOffers[m][k].category
                         = CROP_CATEGORIES_AND_STANDARDIZATION[i].category

\* the lenient branch has looked HALDI up in the flat map and the offer
\* has the standardized name and the category of its one entry
C34_Witness ==
    \E m \in Msgs :
        /\ resp[m].kind = "text" /\ ~StrictParseOk(resp[m])
        /\ \E k \in 1..Len(processedOffers[m]) :
              /\ processedOffers[m][k].key = "HALDI"
              /\ Cardinality(AliasEntries("HALDI")) = 1
              /\ processedOffers[m][k].standardizedName = "TURMERIC"
              /\ processedOffers[m][k].category = "SPICES"

\* the texts of the offers extracted from the message of m
OwnTexts(m) ==
    {processedOffers[m][k].en : k \in 1..Len(processedOffers[m])}
    \cup {processedOffers[m][k].te : k \in 1..Len(processedOffers[m])}

\* what invocation m holds: its offers, buckets, accumulators and sends
CycleState(m) ==
    <<processedOffers[m], groupedMessages[m], allUpdatesContent[m], sends[m], resp[m]>>

\* C35: cycles do not mix content: under any interleaving of overlapping
\* cycles the offers of a cycle are those extracted from the oracle's
\* answer to its own message, every text of its buckets, accumulators,
\* per-category and broadcast messages is a text of those offers, and a
\* step of one invocation leaves the offers, buckets, accumulators and
\* sends of every other invocation as they are.
C35_CyclesDoNotMix ==
    /\ [](\A m \in Msgs :
            /\ processedOffers[m] # <<>> =>
                  processedOffers[m] = ExtractAndTranslateCropOffers(resp[m])
            /\ \A b \in 1..Len(groupedMessages[m]), lang \in {"en", "te"} :
                  \A t \in 1..Len(groupedMessages[m][b][lang]) :
                     groupedMessages[m][b][lang][t] \in OwnTexts(m)
            /\ \A lang \in {"en", "te"} :
                  \A j \in 1..Len(allUpdatesContent[m][lang]) :
                     \A t \in 1..Len(allUpdatesContent[m][lang][j].texts) :
                        allUpdatesContent[m][lang][j].texts[t] \in OwnTexts(m)
            /\ \A i \in 1..Len(sends[m]) :
                  \A j \in 1..Len(sends[m][i].sections) :
                     \A t \in 1..Len(sends[m][i].sections[j].texts) :
                        sends[m][i].sections[j].texts[t] \in OwnTexts(m))
    /\ [][\A m \in Msgs :
            StepOf(m) => \A n \in Msgs \ {m} : CycleState(n)' = CycleState(n)]_vars

\* two cycles overlap: the earlier one waits for a per-category send to
\* return while the later one, whose offer has another text, has sent its
\* own message and broadcast
C35_Witness ==
    \E m \in Msgs, n \in Msgs :
        /\ m < n /\ pc[m] = "send" /\ pc[n] = "Done"
        /\ OwnTexts(m) \cap OwnTexts(n) = {}
        /\ \E s \in SendsOf(n) : s.kind = "category" /\ s.status = "ok"
        /\ \E s \in SendsOf(n) : s.kind = "broadcast" /\ s.status = "ok"

\* the categories of the lexicon
LexiconCategories ==
    {CROP_CATEGORIES_AND_STANDARDIZATION[i].category :
        i \in 1..Len(CROP_CATEGORIES_AND_STANDARDIZATION)}

C37_KattaRangeOrdered ==
    (/\ fmt.runs = 1 /\ fmt.unit # NoUnit
     /\ fmt.unit.range /\ fmt.unit.word = KATTA /\ fmt.unit.a <= fmt.unit.b)
    => LET r == RangeAt(fmt.out, 1)
       IN  r.end > 0 => ParseInt(r.p1) <= ParseInt(r.p2)

\* line 350: the placeholder for a formatted English text
Placeholder(en) == "Translation not available in lenient mode. Original: " \o en

\* the answer of the oracle to m went through the lenient branch
OnLenientPath(m) == resp[m].kind = "text" /\ ~StrictParseOk(resp[m])

\* the Telugu channel the RoutingTable maps for the category of the offer
HasTeluguChannel(offer) ==
    /\ HasMapping(offer.category)
    /\ "te" \in DOMAIN BUYER_GROUP_MAPPING[offer.category]

\* the text stands in one of the sections
InSections(sections, text) ==
    \E j \in 1..Len(sections) :
        /\ sections[j].lang = "te"
        /\ \E t \in 1..Len(sections[j].texts) : sections[j].texts[t] = text

=============================================================================
